---- MODULE Spec2Model ----
(***************************************************************************)
(* Composite anomaly-scoring engine of the prediction-market insider       *)
(* trading detector: the market engine (insider_detection_engine.py), the  *)
(* wallet analyzer (wallet_analyzer.py) and the market-creation analyzer   *)
(* (market_creation_analyzer.py), over their shared SQLite store.          *)
(*                                                                         *)
(* Conventions.                                                            *)
(*  - Money (volume, liquidity, trade amounts) is in whole dollars.        *)
(*  - Prices (probabilities) are in hundredths: 0.52 is 52.                *)
(*  - Wall-clock time and row timestamps are whole hours since t = 0,      *)
(*    which falls at 00:00 on weekday EpochWeekday (0 = Monday).           *)
(*  - A real-valued result is kept exact: a z-score is the triple          *)
(*    [num, n, dev2] standing for num * sqrt(n) / sqrt(dev2); a ratio is   *)
(*    the pair [num, den] standing for num / den; a weighted score is kept *)
(*    in hundredths.                                                       *)
(***************************************************************************)
EXTENDS Integers, Sequences, FiniteSets, TLC

VARIABLES
    now,                 \* wall clock read by datetime.now() / datetime('now')
    volume_history,      \* table volume_history, in rowid order
    price_history,       \* table price_history, in rowid order
    wallet_activity,     \* table wallet_activity, in rowid order
    trade_outcomes,      \* table trade_outcomes, in rowid order
    market_creation_log, \* table market_creation_log, in rowid order
    markets,             \* table markets, in rowid order
    current_markets,     \* data service: table current_markets
    market_history,      \* data service: table market_history
    market_creations,    \* data service: table market_creations
    fetch_log,           \* data service: table fetch_log
    alert_call,          \* a generate_composite_alert call in progress
    store_call,          \* a store_market_data call in progress
    running,             \* data service: self.running
    loops,               \* data service: the run_service threads started
    jobs,                \* the jobs of the schedule module: their next run
    cycles,              \* the fetch cycles the jobs have begun
    report               \* what the last call returned (or that it raised)

vars == <<now, volume_history, price_history, wallet_activity,
          trade_outcomes, market_creation_log, markets, current_markets,
          market_history, market_creations, fetch_log, alert_call, store_call,
          running, loops, jobs, cycles, report>>

\* every stored table, of the detection database and of the data service's
store == <<volume_history, price_history, wallet_activity,
           trade_outcomes, market_creation_log, markets, current_markets,
           market_history, market_creations, fetch_log>>

\* the background service: its flag, its threads and their schedule
background == <<running, loops, jobs, cycles>>

\* the calls in progress
calls == <<alert_call, store_call, background>>

\* ------------------------------------------------------------------ bounds
MaxHist == 5          \* longest stored history drawn for one market
MaxTicks == 1         \* how many times the wall clock advances
TickHours == 12       \* hours the wall clock advances in one step
StoreGapHours == 6    \* hours between two successive stored snapshots
EpochWeekday == 4     \* weekday of t = 0 (0 = Monday, 4 = Friday)
MaxScan == 2          \* longest market list the API returns to a scan
PageLimit == 2        \* markets in one full page of the API (500 in the code)
MaxPages == 2         \* requests the API answers before it returns nothing
MaxFetches == 1       \* fetch cycles of the data service that store
MaxActivity == 6      \* most rows of wallet_activity drawn for the detector
MaxStores == 2        \* store_market_data calls of the data service that log
MaxStarts == 2        \* start_background_service calls
MaxIntervals == 1     \* intervals that elapse while the service is observed

\* ------------------------------------------------------- program constants
VolumeWindowHours == 720   \* datetime('now', '-30 days')
PriceWindowHours == 24     \* datetime('now', '-1 day')
WalletWindowHours == 168   \* datetime('now', '-7 days')
MinVolumeSamples == 5
MinZscoreSamples == 3
MinPriceSamples == 2

\* ------------------------------------------------------------ small helpers
Min(a, b) == IF a <= b THEN a ELSE b

Max(a, b) == IF a >= b THEN a ELSE b

Abs(a) == IF a >= 0 THEN a ELSE -a

RECURSIVE SumSeq(_)
SumSeq(s) == IF s = <<>> THEN 0 ELSE Head(s) + SumSeq(Tail(s))

RECURSIVE InsertByTs(_, _)
\* insert row r after every row whose timestamp is <= r.timestamp
InsertByTs(r, s) ==
    IF s = <<>> THEN <<r>>
    ELSE IF Head(s).timestamp <= r.timestamp
         THEN <<Head(s)>> \o InsertByTs(r, Tail(s))
         ELSE <<r>> \o s

RECURSIVE OrderByTimestampAsc(_)
\* ORDER BY timestamp ASC (rows of equal timestamp stay in rowid order)
OrderByTimestampAsc(s) ==
    IF s = <<>> THEN <<>>
    ELSE InsertByTs(s[Len(s)], OrderByTimestampAsc(SubSeq(s, 1, Len(s) - 1)))

Reverse(s) == [i \in 1..Len(s) |-> s[Len(s) + 1 - i]]

\* ORDER BY timestamp DESC
OrderByTimestampDesc(s) == Reverse(OrderByTimestampAsc(s))

\* ------------------------------------------------------------ exact numbers
\* the z-score 0.0
ZeroZ == [num |-> 0, n |-> 1, dev2 |-> 1]

\* z > k for a whole number k >= 0, where z = num * sqrt(n) / sqrt(dev2)
\* (num^2 * n > k^2 * dev2, written so that no product leaves 32 bits)
ZGt(z, k) == z.num > 0 /\ z.num * z.num > (k * k * z.dev2) \div z.n

\* the ratio 0
ZeroRatio == [num |-> 0, den |-> 1]

\* r > k for a whole number k, where r = num / den and den > 0
RatioGt(r, k) == r.num > k * r.den

\* ------------------------------------------------------------------ reports
\* no call in progress
Idle == [pc |-> "idle"]

\* the data service's tables before its first fetch
ServiceEmpty ==
    /\ current_markets = <<>>
    /\ market_history = <<>>
    /\ market_creations = <<>>
    /\ fetch_log = <<>>

NoCalls ==
    /\ alert_call = Idle /\ store_call = Idle
    /\ running = FALSE /\ loops = <<>> /\ jobs = <<>> /\ cycles = <<>>

NoReport == [kind |-> "none", args |-> <<>>, raised |-> FALSE,
             value |-> <<>>, at |-> 0]

Returned(kind, args, value) ==
    [kind |-> kind, args |-> args, raised |-> FALSE, value |-> value, at |-> now]

Raised(kind, args, error) ==
    [kind |-> kind, args |-> args, raised |-> TRUE, value |-> error, at |-> now]

\* ------------------------------------------------- insider_detection_engine
\* SELECT volume_24h FROM volume_history WHERE condition_id = ? AND
\* timestamp >= datetime('now', '-30 days') ORDER BY timestamp DESC
SelectVolumeHistory(condition_id) ==
    LET InWindow(r) == r.condition_id = condition_id
                       /\ r.timestamp >= now - VolumeWindowHours
        rows == OrderByTimestampDesc(SelectSeq(volume_history, InWindow))
    IN  [i \in 1..Len(rows) |-> rows[i].volume_24h]

\* n * sum of squared deviations from the mean, times n: sum (n*v - S)^2
Dev2(historical_volumes) ==
    LET n == Len(historical_volumes)
        S == SumSeq(historical_volumes)
    IN  SumSeq([i \in 1..n |-> (n * historical_volumes[i] - S)
                                * (n * historical_volumes[i] - S)])

\* calculate_volume_zscore without max(0, .): a collapse scores below zero
calculate_volume_zscore_signed(current_volume, historical_volumes) ==
    LET n == Len(historical_volumes)
        S == SumSeq(historical_volumes)
        dev2 == Dev2(historical_volumes)
    IN  IF n < MinZscoreSamples THEN ZeroZ
        ELSE IF dev2 = 0 THEN ZeroZ
        ELSE [num |-> n * current_volume - S, n |-> n, dev2 |-> dev2]

\* calculate_volume_zscore with abs(.) for max(0, .): a two-sided z-score
calculate_volume_zscore_abs(current_volume, historical_volumes) ==
    LET n == Len(historical_volumes)
        S == SumSeq(historical_volumes)
        dev2 == Dev2(historical_volumes)
    IN  IF n < MinZscoreSamples THEN ZeroZ
        ELSE IF dev2 = 0 THEN ZeroZ
        ELSE [num |-> Abs(n * current_volume - S), n |-> n, dev2 |-> dev2]

calculate_volume_zscore(current_volume, historical_volumes) ==
    LET n == Len(historical_volumes)
        S == SumSeq(historical_volumes)
        dev2 == Dev2(historical_volumes)
    IN  IF n < MinZscoreSamples THEN ZeroZ
        ELSE IF dev2 = 0 THEN ZeroZ                      \* std_vol == 0
        ELSE [num |-> Max(0, n * current_volume - S), n |-> n, dev2 |-> dev2]

\* The result is the returned pair (score, description) together with the
\* local variable level; the description is the f-string's fixed text (the
\* embedded sigma multiple is the score itself).
VolumeAnomalyLevel(z_score) ==
    IF ZGt(z_score, 4)
    THEN [score |-> z_score, level |-> "EXTREME",
          description |-> "Volume spike above normal (extremely unusual)"]
    ELSE IF ZGt(z_score, 3)
    THEN [score |-> z_score, level |-> "HIGH",
          description |-> "Volume spike above normal (highly unusual)"]
    ELSE IF ZGt(z_score, 2)
    THEN [score |-> z_score, level |-> "MODERATE",
          description |-> "Volume spike above normal (unusual)"]
    ELSE [score |-> z_score, level |-> "NORMAL",
          description |-> "Normal trading volume"]

\* detect_volume_anomaly asking for 3 samples, as calculate_volume_zscore does
detect_volume_anomaly_min3(condition_id, current_volume) ==
    LET historical_volumes == SelectVolumeHistory(condition_id)
    IN  IF Len(historical_volumes) < MinZscoreSamples
        THEN [score |-> ZeroZ, level |-> "NONE",
              description |-> "Insufficient historical data"]
        ELSE VolumeAnomalyLevel(
                 calculate_volume_zscore(current_volume, historical_volumes))

detect_volume_anomaly(condition_id, current_volume) ==
    LET historical_volumes == SelectVolumeHistory(condition_id)
    IN  IF Len(historical_volumes) < MinVolumeSamples
        THEN [score |-> ZeroZ, level |-> "NONE",
              description |-> "Insufficient historical data"]
        ELSE VolumeAnomalyLevel(
                 calculate_volume_zscore(current_volume, historical_volumes))

\* SELECT yes_prob FROM price_history WHERE condition_id = ? AND
\* timestamp >= datetime('now', '-1 day') ORDER BY timestamp ASC
SelectPriceHistory(condition_id) ==
    LET InWindow(r) == r.condition_id = condition_id
                       /\ r.timestamp >= now - PriceWindowHours
        rows == OrderByTimestampAsc(SelectSeq(price_history, InWindow))
    IN  [i \in 1..Len(rows) |-> rows[i].yes_prob]

\* the list price_changes: |p[i] - p[i-1]| for i = 1 .. len - 1
PriceChanges(prices) ==
    [i \in 1..(Len(prices) - 1) |-> Abs(prices[i + 1] - prices[i])]

\* VolatilityRatio measuring the move from the oldest price, not the latest
VolatilityRatio_first(current_price, prices) ==
    LET total == SumSeq([i \in 1..(Len(prices) - 1) |->
                            Abs(prices[i + 1] - prices[i])])
    IN  IF total > 0
        THEN [num |-> Abs(current_price - prices[1]) * (Len(prices) - 1),
              den |-> total]
        ELSE [num |-> 0, den |-> 1]

\* current_change / avg_change if avg_change > 0 else 0, where avg_change is
\* the mean of price_changes and current_change = |current - history[-1]|
VolatilityRatio(current_price, prices) ==
    LET price_changes == PriceChanges(prices)
        total == SumSeq(price_changes)
        current_change == Abs(current_price - prices[Len(prices)])
    IN  IF total > 0
        THEN [num |-> current_change * Len(price_changes), den |-> total]
        ELSE ZeroRatio

\* (score, description) and the local variable level, as for the volume
analyze_price_volatility(condition_id, current_price) ==
    LET prices == SelectPriceHistory(condition_id)
        volatility_ratio == VolatilityRatio(current_price, prices)
    IN  IF Len(prices) < MinPriceSamples
        THEN [score |-> ZeroRatio, level |-> "NONE",
              description |-> "Insufficient price history"]
        ELSE IF PriceChanges(prices) = <<>>
        THEN [score |-> ZeroRatio, level |-> "NONE",
              description |-> "No price changes detected"]
        ELSE IF RatioGt(volatility_ratio, 3)
        THEN [score |-> volatility_ratio, level |-> "HIGH",
              description |-> "Price move above normal volatility"]
        ELSE IF RatioGt(volatility_ratio, 2)
        THEN [score |-> volatility_ratio, level |-> "MODERATE",
              description |-> "Price move above normal volatility"]
        ELSE [score |-> volatility_ratio, level |-> "NORMAL",
              description |-> "Normal price movement"]

\* SELECT ... FROM wallet_activity WHERE condition_id = ? AND
\* timestamp >= datetime('now', '-7 days') ORDER BY timestamp DESC
SelectWalletActivity(condition_id) ==
    LET InWindow(r) == r.condition_id = condition_id
                       /\ r.timestamp >= now - WalletWindowHours
    IN  OrderByTimestampDesc(SelectSeq(wallet_activity, InWindow))

RECURSIVE WalletsInOrder(_)
\* the keys of wallet_stats, in the order the loop first meets them
WalletsInOrder(activities) ==
    IF activities = <<>> THEN <<>>
    ELSE LET init == WalletsInOrder(SubSeq(activities, 1, Len(activities) - 1))
             addr == activities[Len(activities)].wallet_address
         IN  IF \E i \in 1..Len(init) : init[i] = addr
             THEN init ELSE Append(init, addr)

WalletStats(activities, addr) ==
    LET Mine(r) == r.wallet_address = addr
        mine == SelectSeq(activities, Mine)
        IsLarge(r) == r.trade_amount > 1000
    IN  [total_volume |-> SumSeq([i \in 1..Len(mine) |-> mine[i].trade_amount]),
         trade_count |-> Len(mine),
         large_trades |-> Len(SelectSeq(mine, IsLarge))]

\* variant: a wallet already flagged for concentration is not flagged again
WalletAnomaliesOf_first(addr, stats) ==
    IF stats.total_volume > 10000 /\ stats.trade_count <= 5
    THEN <<[type |-> "HIGH_CONCENTRATION", wallet |-> addr, severity |-> "HIGH",
            amount |-> stats.total_volume, count |-> stats.trade_count]>>
    ELSE IF stats.large_trades >= 3
    THEN <<[type |-> "LARGE_TRADES", wallet |-> addr, severity |-> "MEDIUM",
            amount |-> 0, count |-> stats.large_trades]>>
    ELSE <<>>

\* the anomalies one wallet contributes, in the order they are appended
WalletAnomaliesOf(addr, stats) ==
    (IF stats.total_volume > 10000 /\ stats.trade_count <= 5
     THEN <<[type |-> "HIGH_CONCENTRATION", wallet |-> addr, severity |-> "HIGH",
             amount |-> stats.total_volume, count |-> stats.trade_count]>>
     ELSE <<>>)
    \o
    (IF stats.large_trades >= 3
     THEN <<[type |-> "LARGE_TRADES", wallet |-> addr, severity |-> "MEDIUM",
             amount |-> 0, count |-> stats.large_trades]>>
     ELSE <<>>)

RECURSIVE ConcatAnomalies(_, _)
ConcatAnomalies(activities, wallets) ==
    IF wallets = <<>> THEN <<>>
    ELSE WalletAnomaliesOf(Head(wallets), WalletStats(activities, Head(wallets)))
         \o ConcatAnomalies(activities, Tail(wallets))

detect_wallet_anomalies(condition_id) ==
    LET activities == SelectWalletActivity(condition_id)
    IN  IF activities = <<>> THEN <<>>
        ELSE ConcatAnomalies(activities, WalletsInOrder(activities))

\* one entry of the list alerts: a fixed text, and for a wallet anomaly the
\* wallet and the figures its f-string embeds
AlertLine(text) == [text |-> text, wallet |-> "", amount |-> 0, count |-> 0]

AnomalyLine(a) ==
    [text |-> a.type, wallet |-> a.wallet, amount |-> a.amount, count |-> a.count]

VolumePoints(volume_zscore) ==
    IF ZGt(volume_zscore, 3) THEN 40
    ELSE IF ZGt(volume_zscore, 2) THEN 25 ELSE 0

PricePoints(price_vol_ratio) ==
    IF RatioGt(price_vol_ratio, 3) THEN 25
    ELSE IF RatioGt(price_vol_ratio, 2) THEN 15 ELSE 0

\* variant: both severity buckets add their points
WalletPoints_both(wallet_anomalies) ==
    (IF \E i \in 1..Len(wallet_anomalies) : wallet_anomalies[i].severity = "HIGH"
     THEN 25 ELSE 0)
    + (IF \E i \in 1..Len(wallet_anomalies) :
             wallet_anomalies[i].severity = "MEDIUM"
       THEN 15 ELSE 0)

WalletPoints(wallet_anomalies) ==
    LET IsHigh(a) == a.severity = "HIGH"
        IsMedium(a) == a.severity = "MEDIUM"
    IN  IF SelectSeq(wallet_anomalies, IsHigh) # <<>> THEN 25
        ELSE IF SelectSeq(wallet_anomalies, IsMedium) # <<>> THEN 15 ELSE 0

\* variant: a market without the mismatch loses the points
LiquidityPoints_signed(liquidity, current_volume) ==
    IF liquidity < 1000 /\ current_volume > 5000 THEN 10 ELSE -10

LiquidityPoints(liquidity, current_volume) ==
    IF liquidity < 1000 /\ current_volume > 5000 THEN 10 ELSE 0

\* market_data is [conditionId, volume24hr, yes_price, liquidity, valid]:
\* yes_price is float(json.loads(outcomePrices)[0]); valid = FALSE is a record
\* whose volume24hr or outcomePrices fails the numeric coercion (it raises)
\* lines 273-321: the score and the alert built from the three detectors'
\* results
CompositeAlert(market_data, volume, price, wallet_anomalies) ==
    LET condition_id == market_data.conditionId
        current_volume == market_data.volume24hr
        current_price == market_data.yes_price
        IsHigh(a) == a.severity = "HIGH"
        IsMedium(a) == a.severity = "MEDIUM"
        high == SelectSeq(wallet_anomalies, IsHigh)
        medium == SelectSeq(wallet_anomalies, IsMedium)
        score == VolumePoints(volume.score) + PricePoints(price.score)
                 + WalletPoints(wallet_anomalies)
                 + LiquidityPoints(market_data.liquidity, current_volume)
        alerts ==
            (IF VolumePoints(volume.score) > 0
             THEN <<AlertLine(volume.description)>> ELSE <<>>)
            \o (IF PricePoints(price.score) > 0
                THEN <<AlertLine(price.description)>> ELSE <<>>)
            \o (IF high # <<>> THEN [i \in 1..Len(high) |-> AnomalyLine(high[i])]
                ELSE [i \in 1..Len(medium) |-> AnomalyLine(medium[i])])
            \o (IF LiquidityPoints(market_data.liquidity, current_volume) > 0
                THEN <<AlertLine("High volume in low liquidity market")>>
                ELSE <<>>)
    IN  [condition_id |-> condition_id,
         alert_score |-> Min(100, score),
         alerts |-> alerts,
         volume_zscore |-> volume.score,
         price_volatility |-> price.score,
         wallet_anomalies |-> wallet_anomalies,
         current_volume |-> current_volume,
         current_price |-> current_price,
         timestamp |-> now]

generate_composite_alert(market_data) ==
    CompositeAlert(market_data,
                   detect_volume_anomaly(market_data.conditionId,
                                         market_data.volume24hr),
                   analyze_price_volatility(market_data.conditionId,
                                            market_data.yes_price),
                   detect_wallet_anomalies(market_data.conditionId))

RECURSIVE InsertByScoreDesc(_, _)
\* insert alert a after every alert whose alert_score is >= a.alert_score
InsertByScoreDesc(a, s) ==
    IF s = <<>> THEN <<a>>
    ELSE IF Head(s).alert_score >= a.alert_score
         THEN <<Head(s)>> \o InsertByScoreDesc(a, Tail(s))
         ELSE <<a>> \o s

RECURSIVE SortByAlertScore(_)
\* alerts.sort(key = alert_score, reverse = True): stable
SortByAlertScore(s) ==
    IF s = <<>> THEN <<>>
    ELSE InsertByScoreDesc(s[Len(s)], SortByAlertScore(SubSeq(s, 1, Len(s) - 1)))

\* variant: the threshold itself qualifies
ScanKeeps_atleast30(market, min_volume) ==
    /\ market.valid
    /\ market.volume24hr >= min_volume
    /\ generate_composite_alert(market).alert_score >= 30

\* whether the loop body of scan_markets appends an alert for this market
ScanKeeps(market, min_volume) ==
    /\ market.valid
    /\ market.volume24hr >= min_volume
    /\ generate_composite_alert(market).alert_score > 30

\* fetched is what get_current_markets returned
scan_markets(fetched, min_volume) ==
    LET Keep(market) == ScanKeeps(market, min_volume)
        kept == SelectSeq(fetched, Keep)
    IN  SortByAlertScore([i \in 1..Len(kept) |-> generate_composite_alert(kept[i])])

\* ----------------------------------------------------------- wallet_analyzer
\* a call either returns a value or raises
Ok(value) == [raised |-> FALSE, value |-> value]

Err(error) == [raised |-> TRUE, value |-> error]

RECURSIVE MaxSeq(_)
\* max(list) of a non-empty list
MaxSeq(s) == IF Len(s) = 1 THEN s[1] ELSE Max(Head(s), MaxSeq(Tail(s)))

\* SELECT ... FROM trade_outcomes WHERE wallet_address = ? (every statistic
\* taken of the rows is independent of the ORDER BY entry_time DESC)
SelectTradeOutcomes(wallet_address) ==
    LET Mine(r) == r.wallet_address = wallet_address
    IN  Reverse(SelectSeq(trade_outcomes, Mine))

\* total_profits / total_losses if total_losses > 0
\* else float('inf') if total_profits > 0 else 0
ProfitFactor(total_profits, total_losses) ==
    IF total_losses > 0
    THEN [inf |-> FALSE, num |-> total_profits, den |-> total_losses]
    ELSE IF total_profits > 0 THEN [inf |-> TRUE, num |-> 1, den |-> 1]
    ELSE [inf |-> FALSE, num |-> 0, den |-> 1]

analyze_wallet_profitability(wallet_address) ==
    LET trades == SelectTradeOutcomes(wallet_address)
        profits == [i \in 1..Len(trades) |-> trades[i].profit_loss]
        amounts == [i \in 1..Len(trades) |-> trades[i].trade_amount]
        HasHold(r) == r.hold_duration_hours # 0
        held == SelectSeq(trades, HasHold)
        hold_times == [i \in 1..Len(held) |-> held[i].hold_duration_hours]
        Won(r) == r.profit_loss > 0
        Lost(r) == r.profit_loss < 0
        won == SelectSeq(trades, Won)
        lost == SelectSeq(trades, Lost)
        profitable_trades == Len(won)
        total_trades == Len(trades)
        win_rate == IF total_trades > 0
                    THEN [num |-> profitable_trades, den |-> total_trades]
                    ELSE ZeroRatio
        total_profits == SumSeq([i \in 1..Len(won) |-> won[i].profit_loss])
        total_losses == Abs(SumSeq([i \in 1..Len(lost) |-> lost[i].profit_loss]))
        profit_factor == ProfitFactor(total_profits, total_losses)
        Quick(r) == r.profit_loss > 0 /\ r.hold_duration_hours # 0
                    /\ r.hold_duration_hours < 24
        quick_profits == SelectSeq(trades, Quick)
        quick_profit_ratio == IF profitable_trades > 0
                              THEN [num |-> Len(quick_profits),
                                    den |-> profitable_trades]
                              ELSE ZeroRatio
        insider_score ==
            (IF 5 * win_rate.num > 4 * win_rate.den /\ total_trades >= 10
             THEN 30 ELSE 0)
            + (IF profit_factor.inf \/ profit_factor.num > 3 * profit_factor.den
               THEN 25 ELSE 0)
            + (IF SumSeq(profits) > 1000 * total_trades THEN 20 ELSE 0)
            + (IF 10 * quick_profit_ratio.num > 7 * quick_profit_ratio.den
               THEN 15 ELSE 0)
            + (IF MaxSeq(amounts) > 10000 THEN 10 ELSE 0)
    IN  IF trades = <<>>
        THEN [total_trades |-> 0, win_rate |-> ZeroRatio, avg_profit |-> ZeroRatio,
              max_profit |-> 0, avg_hold_time |-> ZeroRatio,
              profit_factor |-> ProfitFactor(0, 0), insider_score |-> 0]
        ELSE [total_trades |-> total_trades,
              win_rate |-> win_rate,
              avg_profit |-> [num |-> SumSeq(profits), den |-> total_trades],
              max_profit |-> MaxSeq(profits),
              avg_hold_time |-> IF hold_times # <<>>
                                THEN [num |-> SumSeq(hold_times),
                                      den |-> Len(hold_times)]
                                ELSE ZeroRatio,
              profit_factor |-> profit_factor,
              insider_score |-> Min(100, insider_score),
              quick_profit_ratio |-> quick_profit_ratio]

\* the rows of trade_outcomes JOIN markets ON condition_id for one wallet
SelectOutcomesWithMarket(wallet_address) ==
    LET trades == SelectTradeOutcomes(wallet_address)
        Known(r) == \E i \in 1..Len(markets) :
                        markets[i].condition_id = r.condition_id
        joined == SelectSeq(trades, Known)
        MarketOf(r) == markets[CHOOSE i \in 1..Len(markets) :
                                  markets[i].condition_id = r.condition_id]
    IN  [i \in 1..Len(joined) |->
            [condition_id |-> joined[i].condition_id,
             entry_time |-> joined[i].entry_time,
             hold_duration |-> joined[i].hold_duration_hours,
             market_end |-> MarketOf(joined[i]).end_date]]

\* the anomalies one joined row contributes; hours from entry to resolution
TimingAnomaliesOf(trade) ==
    LET time_to_resolution == trade.market_end.t - trade.entry_time.t
    IN  (IF time_to_resolution < 24 /\ time_to_resolution > 0
         THEN <<[type |-> "LAST_MINUTE_TRADING",
                 severity |-> IF time_to_resolution < 6 THEN "HIGH" ELSE "MEDIUM",
                 condition_id |-> trade.condition_id]>>
         ELSE <<>>)
        \o
        (IF trade.hold_duration # 0 /\ trade.hold_duration < 2
         THEN <<[type |-> "QUICK_FLIP", severity |-> "MEDIUM",
                 condition_id |-> trade.condition_id]>>
         ELSE <<>>)

RECURSIVE ConcatTimingAnomalies(_)
ConcatTimingAnomalies(trades) ==
    IF trades = <<>> THEN <<>>
    ELSE TimingAnomaliesOf(Head(trades)) \o ConcatTimingAnomalies(Tail(trades))

\* A time is [t, aware]: aware is whether the parsed datetime carries a UTC
\* offset (its text ends in 'Z'); subtracting an aware and a naive datetime
\* raises TypeError.
detect_timing_anomalies(wallet_address) ==
    LET trades == SelectOutcomesWithMarket(wallet_address)
    IN  IF \E i \in 1..Len(trades) :
              trades[i].market_end.aware # trades[i].entry_time.aware
        THEN Err("TypeError")
        ELSE Ok(ConcatTimingAnomalies(trades))

\* the columns of table markets, as init_database creates it
MarketsColumns ==
    {"condition_id", "question", "category", "created_at", "end_date", "active"}

\* trade_amount / market_liquidity if market_liquidity > 0 else 0, where
\* market_liquidity = liquidity if liquidity > 0 else volume_24h * 0.1
ImpactRatio(trade_amount, liquidity, volume_24h) ==
    IF liquidity > 0 THEN [num |-> trade_amount, den |-> liquidity]
    ELSE IF volume_24h > 0 THEN [num |-> 10 * trade_amount, den |-> volume_24h]
    ELSE ZeroRatio

RECURSIVE SumRatios(_)
\* the exact sum of a list of ratios
SumRatios(rs) ==
    IF rs = <<>> THEN ZeroRatio
    ELSE LET rest == SumRatios(Tail(rs))
         IN  [num |-> Head(rs).num * rest.den + rest.num * Head(rs).den,
              den |-> Head(rs).den * rest.den]

\* the rows of wallet_activity JOIN markets ON condition_id for one wallet
SelectActivityWithMarket(wallet_address) ==
    LET Mine(r) == /\ r.wallet_address = wallet_address
                   /\ \E i \in 1..Len(markets) :
                         markets[i].condition_id = r.condition_id
        joined == Reverse(SelectSeq(wallet_activity, Mine))
        MarketOf(r) == markets[CHOOSE i \in 1..Len(markets) :
                                  markets[i].condition_id = r.condition_id]
    IN  [i \in 1..Len(joined) |->
            [trade_amount |-> joined[i].trade_amount,
             liquidity |-> MarketOf(joined[i]).liquidity,
             volume_24h |-> MarketOf(joined[i]).volume24hr]]

ManipulationScore(impact_ratios) ==
    LET total == SumRatios(impact_ratios)
        IsLargeImpact(r) == 10 * r.num > r.den
        IsVeryLarge(r) == 5 * r.num > r.den
    IN  (IF 20 * total.num > Len(impact_ratios) * total.den THEN 30 ELSE 0)
        + (IF Len(SelectSeq(impact_ratios, IsLargeImpact)) > 3 THEN 25 ELSE 0)
        + (IF SelectSeq(impact_ratios, IsVeryLarge) # <<>> THEN 20 ELSE 0)

\* The query selects m.liquidity and m.volume24hr from markets; sqlite refuses
\* a statement naming a column the table does not have, before reading a row.
analyze_market_impact(wallet_address) ==
    IF ~({"liquidity", "volume24hr"} \subseteq MarketsColumns)
    THEN Err("OperationalError")
    ELSE LET trades == SelectActivityWithMarket(wallet_address)
             impact_ratios ==
                 [i \in 1..Len(trades) |->
                     ImpactRatio(trades[i].trade_amount, trades[i].liquidity,
                                 trades[i].volume_24h)]
             IsLargeImpact(r) == 10 * r.num > r.den
             total == SumRatios(impact_ratios)
         IN  IF trades = <<>>
             THEN Ok([avg_market_impact |-> ZeroRatio, large_impact_trades |-> 0,
                      market_manipulation_score |-> 0])
             ELSE Ok([avg_market_impact |->
                          [num |-> total.num, den |-> total.den * Len(trades)],
                      large_impact_trades |->
                          Len(SelectSeq(impact_ratios, IsLargeImpact)),
                      market_manipulation_score |->
                          Min(100, ManipulationScore(impact_ratios)),
                      max_impact_ratio |->
                          CHOOSE r \in {impact_ratios[i] : i \in 1..Len(trades)} :
                              \A i \in 1..Len(trades) :
                                  impact_ratios[i].num * r.den
                                      <= r.num * impact_ratios[i].den])

\* 100 * (insider_score * 0.4 + manipulation_score * 0.3 + (count * 10) * 0.3)
RiskScore100(insider_score, manipulation_score, timing_count) ==
    40 * insider_score + 30 * manipulation_score + 300 * timing_count

RiskLevel(risk_score100) ==
    IF risk_score100 >= 7000 THEN "HIGH"
    ELSE IF risk_score100 >= 5000 THEN "MEDIUM"
    ELSE IF risk_score100 >= 3000 THEN "LOW" ELSE "NORMAL"

\* the recommendation set in the same branch as the risk level
WalletRecommendation(risk_level) ==
    IF risk_level = "HIGH" THEN "IMMEDIATE INVESTIGATION REQUIRED"
    ELSE IF risk_level = "MEDIUM" THEN "CLOSE MONITORING ADVISED"
    ELSE IF risk_level = "LOW" THEN "ROUTINE MONITORING" ELSE "NO CONCERN"

\* risk_score100 is 100 times the reported risk_score
generate_wallet_report(wallet_address) ==
    LET profitability == analyze_wallet_profitability(wallet_address)
        timing_anomalies == detect_timing_anomalies(wallet_address)
        market_impact == analyze_market_impact(wallet_address)
        risk_score100 ==
            RiskScore100(profitability.insider_score,
                         market_impact.value.market_manipulation_score,
                         Len(timing_anomalies.value))
    IN  IF timing_anomalies.raised THEN timing_anomalies
        ELSE IF market_impact.raised THEN market_impact
        ELSE Ok([wallet_address |-> wallet_address,
                 risk_score100 |-> Min(10000, risk_score100),
                 risk_level |-> RiskLevel(risk_score100),
                 recommendation |-> WalletRecommendation(RiskLevel(risk_score100)),
                 profitability_analysis |-> profitability,
                 timing_anomalies |-> timing_anomalies.value,
                 market_impact_analysis |-> market_impact.value,
                 total_anomalies |-> Len(timing_anomalies.value),
                 analysis_timestamp |-> now])

\* the wallet addresses of the model in the collation order of their text,
\* the order in which GROUP BY wallet_address yields them
WalletsSorted == <<"w1", "w2", "w3">>

\* SELECT DISTINCT wallet_address ... GROUP BY wallet_address
\* HAVING COUNT(*) >= min_trades
SelectActiveWallets(min_trades) ==
    LET Active(w) == Len(SelectTradeOutcomes(w)) >= min_trades
                     /\ SelectTradeOutcomes(w) # <<>>
    IN  SelectSeq(WalletsSorted, Active)

RECURSIVE InsertByRiskDesc(_, _)
InsertByRiskDesc(r, s) ==
    IF s = <<>> THEN <<r>>
    ELSE IF Head(s).risk_score100 >= r.risk_score100
         THEN <<Head(s)>> \o InsertByRiskDesc(r, Tail(s))
         ELSE <<r>> \o s

RECURSIVE SortByRiskScore(_)
\* suspicious_wallets.sort(key = risk_score, reverse = True): stable
SortByRiskScore(s) ==
    IF s = <<>> THEN <<>>
    ELSE InsertByRiskDesc(s[Len(s)], SortByRiskScore(SubSeq(s, 1, Len(s) - 1)))

\* The loop calls generate_wallet_report for each wallet with no handler
\* around the call: the first report that raises ends the whole function.
flag_suspicious_wallets(min_trades) ==
    LET wallets == SelectActiveWallets(min_trades)
        reports == [i \in 1..Len(wallets) |-> generate_wallet_report(wallets[i])]
        failed == {i \in 1..Len(wallets) : reports[i].raised}
        Suspicious(r) == r.risk_score100 >= 3000
    IN  IF failed # {}
        THEN reports[CHOOSE i \in failed : \A j \in failed : i <= j]
        ELSE Ok(SortByRiskScore(
                    SelectSeq([i \in 1..Len(wallets) |-> reports[i].value],
                              Suspicious)))

\* -------------------------------------------------- market_creation_analyzer
\* A question is the list of its whitespace-separated words. The analyzer
\* tests "word in question_lower": a lexicon word counts when it occurs
\* inside some word of the question (no lexicon word contains a space).
UrgencyWords ==
    {"urgent", "immediate", "soon", "within", "before", "by", "asap", "quickly"}

SpecificityIndicators ==
    {"exactly", "precisely", "specifically", "particular", "certain",
     "definite", "guaranteed", "will", "shall"}

\* the lexicon words occurring in the lower-cased word
LexiconIn(word) ==
    CASE word = "Will" -> {"will"}
      [] word = "before" -> {"before"}
      [] word = "exactly" -> {"exactly"}
      [] word = "precisely" -> {"precisely"}
      [] word = "guaranteed" -> {"guaranteed"}
      [] word = "urgent" -> {"urgent"}
      [] word = "immediately" -> {"immediate"}
      [] word = "soon" -> {"soon"}
      [] word = "within" -> {"within"}
      [] word = "quickly" -> {"quickly"}
      [] word = "asap" -> {"asap"}
      [] word = "nearby" -> {"by"}
      [] OTHER -> {}

\* words matched by the date pattern / the number pattern
DateWords == {"2025", "Dec"}

NumberWords == {"2025", "31"}

analyze_question_framing(question) ==
    LET found == UNION {LexiconIn(question[i]) : i \in 1..Len(question)}
        urgency_count == Cardinality(found \cap UrgencyWords)
        specificity_count == Cardinality(found \cap SpecificityIndicators)
        urgency_score == Min(urgency_count * 10, 50)
        specificity_score == Min(specificity_count * 15, 45)
        question_length == Len(question)
        length_score == IF question_length > 20
                        THEN Min(question_length * 2, 30) ELSE 0
    IN  [has_specific_dates |-> \E i \in 1..Len(question) : question[i] \in DateWords,
         has_specific_numbers |->
             \E i \in 1..Len(question) : question[i] \in NumberWords,
         urgency_score |-> urgency_score,
         specificity_score |-> specificity_score,
         length_score |-> length_score,
         total_framing_score |-> urgency_score + specificity_score + length_score]

\* datetime.hour and datetime.weekday() (0 = Monday) of an hour count
HourOf(t) == t % 24

WeekdayOf(t) == (EpochWeekday + (t \div 24)) % 7

\* creation_time and end_date are times [t, aware]; the subtraction raises
\* TypeError when exactly one of them carries a UTC offset
analyze_creation_timing(creation_time, end_date) ==
    LET hours_to_resolution == end_date.t - creation_time.t
        weekday == WeekdayOf(creation_time.t)
        hour == HourOf(creation_time.t)
        timing_score ==
            (IF hours_to_resolution < 7 * 24 THEN 30
             ELSE IF hours_to_resolution < 30 * 24 THEN 15 ELSE 0)
            + (IF hour < 6 \/ hour > 22 THEN 20 ELSE 0)
            + (IF weekday >= 5 THEN 10 ELSE 0)
        \* the unusual-hour reason also embeds creation_hour
        timing_reasons ==
            (IF hours_to_resolution < 7 * 24
             THEN <<"Created very close to resolution date">>
             ELSE IF hours_to_resolution < 30 * 24
                  THEN <<"Created relatively close to resolution">> ELSE <<>>)
            \o (IF hour < 6 \/ hour > 22 THEN <<"Created at unusual hour">>
                ELSE <<>>)
            \o (IF weekday >= 5 THEN <<"Created on weekend">> ELSE <<>>)
    IN  IF end_date.aware # creation_time.aware THEN Err("TypeError")
        ELSE Ok([hours_to_resolution |-> hours_to_resolution,
                 creation_hour |-> hour,
                 creation_weekday |-> weekday,
                 timing_score |-> Min(timing_score, 50),
                 timing_reasons |-> timing_reasons])

\* With at least one creation on record the function evaluates np.mean, and
\* the module never imports numpy: NameError.
analyze_creator_behavior(creator_address) ==
    LET Mine(r) == r.creator_address = creator_address
        creations == SelectSeq(market_creation_log, Mine)
    IN  IF creations = <<>>
        THEN Ok([total_markets |-> 0, avg_liquidity |-> 0, urgency_tendency |-> 0,
                 insider_tendency |-> 0, creator_score |-> 0])
        ELSE Err("NameError")

\* datetime.fromisoformat(end_date_str.replace('Z', '+00:00')), and on any
\* exception creation_time + timedelta(days = 30). endDate is
\* [kind, t]: "utc" a timestamp ending in 'Z', "naive" one without offset,
\* "missing" no or unparsable text.
ParseEndDate(endDate, creation_time) ==
    CASE endDate.kind = "utc" -> [t |-> endDate.t, aware |-> TRUE]
      [] endDate.kind = "naive" -> [t |-> endDate.t, aware |-> FALSE]
      [] OTHER -> [t |-> creation_time.t + 30 * 24, aware |-> FALSE]

\* variant: a liquidity of exactly 500 still counts as very low
InitialLiquidityScore_upto(initial_liquidity) ==
    IF initial_liquidity <= 500 THEN 20
    ELSE IF initial_liquidity < 1000 THEN 10 ELSE 0

InitialLiquidityScore(initial_liquidity) ==
    IF initial_liquidity < 500 THEN 20
    ELSE IF initial_liquidity < 1000 THEN 10 ELSE 0

\* 100 * (framing * 0.3 + timing * 0.25 + creator * 0.25 + liquidity * 0.2)
CreationScore100(framing, timing, creator, liquidity_score) ==
    30 * framing + 25 * timing + 25 * creator + 20 * liquidity_score

CreationLevel(score100) ==
    IF score100 >= 7000 THEN "EXTREME"
    ELSE IF score100 >= 5000 THEN "HIGH"
    ELSE IF score100 >= 3000 THEN "MODERATE" ELSE "LOW"

CreationRecommendation(level) ==
    CASE level = "EXTREME" -> "IMMEDIATE INVESTIGATION"
      [] level = "HIGH" -> "PRIORITY MONITORING"
      [] level = "MODERATE" -> "ROUTINE MONITORING"
      [] OTHER -> "NO CONCERN"

\* market_data is [conditionId, question, creator, endDate, liquidity];
\* insider_creation_score100 is 100 times the reported score
detect_market_creation_anomaly(market_data) ==
    LET creation_time == [t |-> now, aware |-> FALSE]      \* datetime.now()
        end_date == ParseEndDate(market_data.endDate, creation_time)
        framing_analysis == analyze_question_framing(market_data.question)
        timing_analysis == analyze_creation_timing(creation_time, end_date)
        creator_analysis == analyze_creator_behavior(market_data.creator)
        liquidity_score == InitialLiquidityScore(market_data.liquidity)
        score100 == CreationScore100(framing_analysis.total_framing_score,
                                     timing_analysis.value.timing_score,
                                     creator_analysis.value.creator_score,
                                     liquidity_score)
    IN  IF timing_analysis.raised THEN timing_analysis
        ELSE IF creator_analysis.raised THEN creator_analysis
        ELSE Ok([condition_id |-> market_data.conditionId,
                 question |-> market_data.question,
                 creator_address |-> market_data.creator,
                 insider_creation_score100 |-> Min(10000, score100),
                 anomaly_level |-> CreationLevel(score100),
                 recommendation |-> CreationRecommendation(CreationLevel(score100)),
                 framing_analysis |-> framing_analysis,
                 timing_analysis |-> timing_analysis.value,
                 creator_analysis |-> creator_analysis.value,
                 liquidity_score |-> liquidity_score,
                 initial_liquidity |-> market_data.liquidity,
                 analysis_timestamp |-> now])

\* ------------------------------------------------------------- market fetch
\* What the API does with one request: kind "ok" is a 200 response carrying
\* batch, "error" a response with another status, "exception" a request that
\* raises (timeout, connection error).
ApiOk(batch) == [kind |-> "ok", batch |-> batch]

ApiError == [kind |-> "error", batch |-> <<>>]

ApiException == [kind |-> "exception", batch |-> <<>>]

\* engine: one request, every failure gives []
get_current_markets(response) ==
    IF response.kind = "ok" THEN response.batch ELSE <<>>

RECURSIVE FetchPages(_, _)
\* the while loop of fetch_markets_from_api over the answers to its successive
\* requests; past the last scripted answer the API returns an empty page
FetchPages(responses, all_markets) ==
    IF responses = <<>> THEN all_markets
    ELSE LET response == Head(responses)
             markets_batch == response.batch
         IN  IF response.kind = "exception" THEN <<>>
             ELSE IF response.kind = "error" THEN all_markets
             ELSE IF markets_batch = <<>> THEN all_markets
             ELSE IF Len(markets_batch) < PageLimit
                  THEN all_markets \o markets_batch
                  ELSE FetchPages(Tail(responses), all_markets \o markets_batch)

fetch_markets_from_api(responses) == FetchPages(responses, <<>>)

\* ---------------------------------------------------- polymarket_data_service
HasRow(table, condition_id) ==
    \E i \in 1..Len(table) : table[i].condition_id = condition_id

\* variant: an existing row is replaced whole, its created_at included
StoreOneMarket_replace(t, market, fetch_timestamp) ==
    IF ~market.valid THEN t
    ELSE LET condition_id == market.conditionId
             existing == HasRow(t.current_markets, condition_id)
             row == [condition_id |-> condition_id,
                     volume_24h |-> market.volume24hr,
                     liquidity |-> market.liquidity,
                     outcome_prices |-> market.yes_price,
                     fetch_timestamp |-> fetch_timestamp]
             \* the columns of current_markets the UPDATE sets, and created_at
             Current(created_at) ==
                 [condition_id |-> condition_id,
                  volume_24h |-> market.volume24hr,
                  liquidity |-> market.liquidity,
                  outcome_prices |-> market.yes_price,
                  created_at |-> created_at,
                  updated_at |-> fetch_timestamp,
                  fetch_timestamp |-> fetch_timestamp]
         IN  [current_markets |->
                  IF existing
                  THEN [i \in 1..Len(t.current_markets) |->
                           IF t.current_markets[i].condition_id = condition_id
                           THEN Current(fetch_timestamp)
                           ELSE t.current_markets[i]]
                  ELSE Append(t.current_markets, Current(fetch_timestamp)),
              market_creations |->
                  IF existing \/ HasRow(t.market_creations, condition_id)
                  THEN t.market_creations
                  ELSE Append(t.market_creations,
                              [condition_id |-> condition_id,
                               first_seen |-> fetch_timestamp,
                               creator_address |-> "unknown",
                               initial_liquidity |-> market.liquidity]),
              market_history |-> Append(t.market_history, row)]

\* the body of the for loop of PolymarketDataService.store_market_data for one
\* market, on tables t = [current_markets, market_history, market_creations];
\* a market whose numbers do not parse raises in float(), is logged and skipped
StoreOneMarket(t, market, fetch_timestamp) ==
    IF ~market.valid THEN t
    ELSE LET condition_id == market.conditionId
             existing == HasRow(t.current_markets, condition_id)
             row == [condition_id |-> condition_id,
                     volume_24h |-> market.volume24hr,
                     liquidity |-> market.liquidity,
                     outcome_prices |-> market.yes_price,
                     fetch_timestamp |-> fetch_timestamp]
             \* the columns of current_markets the UPDATE sets, and created_at
             Current(created_at) ==
                 [condition_id |-> condition_id,
                  volume_24h |-> market.volume24hr,
                  liquidity |-> market.liquidity,
                  outcome_prices |-> market.yes_price,
                  created_at |-> created_at,
                  updated_at |-> fetch_timestamp,
                  fetch_timestamp |-> fetch_timestamp]
         IN  [current_markets |->
                  IF existing
                  THEN [i \in 1..Len(t.current_markets) |->
                           IF t.current_markets[i].condition_id = condition_id
                           THEN Current(t.current_markets[i].created_at)
                           ELSE t.current_markets[i]]
                  ELSE Append(t.current_markets, Current(fetch_timestamp)),
              market_creations |->
                  IF existing \/ HasRow(t.market_creations, condition_id)
                  THEN t.market_creations
                  ELSE Append(t.market_creations,
                              [condition_id |-> condition_id,
                               first_seen |-> fetch_timestamp,
                               creator_address |-> "unknown",
                               initial_liquidity |-> market.liquidity]),
              market_history |-> Append(t.market_history, row)]

RECURSIVE StoreEachMarket(_, _, _)
StoreEachMarket(t, batch, fetch_timestamp) ==
    IF batch = <<>> THEN t
    ELSE StoreEachMarket(StoreOneMarket(t, Head(batch), fetch_timestamp),
                         Tail(batch), fetch_timestamp)

\* What the database does to a call: "none" nothing, "commit" the commit of
\* the stored rows raises (the database is locked by a reader), "cleanup" the
\* DELETE of old history, which runs after that commit, raises.
StoreFaults == {"none", "commit", "cleanup"}

\* PolymarketDataService.store_market_data: the tables after the call and the
\* value returned; every market the API lists is active
service_store_market_data(batch, fault) ==
    LET t == StoreEachMarket([current_markets |-> current_markets,
                              market_history |-> market_history,
                              market_creations |-> market_creations],
                             batch, now)
        Recent(r) == r.fetch_timestamp >= now - WalletWindowHours
        logged == Append(fetch_log,
                         [fetch_timestamp |-> now,
                          markets_fetched |-> Len(batch),
                          markets_active |-> Len(batch),
                          success |-> TRUE])
    IN  IF batch = <<>> \/ fault = "commit"      \* nothing done / rollback
        THEN [success |-> FALSE, current_markets |-> current_markets,
              market_history |-> market_history,
              market_creations |-> market_creations, fetch_log |-> fetch_log]
        ELSE IF fault = "cleanup"         \* committed, then the except branch
        THEN [success |-> FALSE, current_markets |-> t.current_markets,
              market_history |-> t.market_history,
              market_creations |-> t.market_creations,
              fetch_log |-> logged]
        ELSE [success |-> TRUE, current_markets |-> t.current_markets,
              market_history |-> SelectSeq(t.market_history, Recent),
              market_creations |-> t.market_creations,
              fetch_log |-> logged]

\* ------------------------------------------------------------ input domains
Cids == {"m1", "m2"}

\* sequences over S of length 0 .. k
SeqsUpTo(S, k) == UNION {[1..j -> S] : j \in 0..k}

\* the i-th snapshot of a run is stored at hour i * StoreGapHours
StoredAt(i) == i * StoreGapHours

\* what store_market_data was given for market m1, one snapshot per call
StoredSnapshots ==
    {[volume24hr |-> 10, yes_price |-> 50], [volume24hr |-> 12, yes_price |-> 52],
     [volume24hr |-> 13, yes_price |-> 51]}

FlatSnapshot == [volume24hr |-> 100, yes_price |-> 50]

\* the volumes 10, 12, 11, 13, 12 at the prices 50, 52, 51, 51, 52
ExampleSnapshots ==
    <<[volume24hr |-> 10, yes_price |-> 50], [volume24hr |-> 12, yes_price |-> 52],
      [volume24hr |-> 11, yes_price |-> 51], [volume24hr |-> 13, yes_price |-> 51],
      [volume24hr |-> 12, yes_price |-> 52]>>

\* the snapshots stored for market m1 so far, oldest first
SnapshotSeeds ==
    SeqsUpTo(StoredSnapshots, MaxHist)
    \cup {[i \in 1..5 |-> FlatSnapshot], ExampleSnapshots}

CurVolumes == {5, 12, 14, 15, 16, 20, 500}

CurPrices == {51, 54, 55, 56, 80}

\* rows of a market that is not the one asked about
OtherVolumeRows == <<[condition_id |-> "m2", volume_24h |-> 500, timestamp |-> 0]>>

OtherPriceRows == <<[condition_id |-> "m2", yes_prob |-> 90, timestamp |-> 0]>>

\* the rows store_market_data inserted for the snapshots snaps of a market
VolumeRows(condition_id, snaps) ==
    [i \in 1..Len(snaps) |->
        [condition_id |-> condition_id, volume_24h |-> snaps[i].volume24hr,
         timestamp |-> StoredAt(i)]]

PriceRows(condition_id, snaps) ==
    [i \in 1..Len(snaps) |->
        [condition_id |-> condition_id, yes_prob |-> snaps[i].yes_price,
         timestamp |-> StoredAt(i)]]

\* ------------------------------------------------------------------ actions
DetectVolumeAnomaly(condition_id, current_volume) ==
    /\ report' = Returned("volume", <<condition_id, current_volume>>,
                          detect_volume_anomaly(condition_id, current_volume))
    /\ UNCHANGED <<now, store, calls>>

AnalyzePriceVolatility(condition_id, current_price) ==
    /\ report' = Returned("price", <<condition_id, current_price>>,
                          analyze_price_volatility(condition_id, current_price))
    /\ UNCHANGED <<now, store, calls>>

\* the hour of the last stored snapshot (0 for an empty store)
LastStored ==
    IF volume_history = <<>> THEN 0
    ELSE volume_history[Len(volume_history)].timestamp

\* the wall clock advances
Tick ==
    /\ now + TickHours <= LastStored + MaxTicks * TickHours
    /\ now' = now + TickHours
    /\ UNCHANGED <<store, calls, report>>

\* ------------------------------------ the two statistical detectors by themselves
InitDetect ==
    /\ \E snaps \in SnapshotSeeds :
          /\ volume_history = OtherVolumeRows \o VolumeRows("m1", snaps)
          /\ price_history = OtherPriceRows \o PriceRows("m1", snaps)
          /\ now = StoredAt(Len(snaps))
    /\ wallet_activity = <<>>
    /\ trade_outcomes = <<>>
    /\ market_creation_log = <<>>
    /\ markets = <<>>
    /\ ServiceEmpty /\ NoCalls
    /\ report = NoReport

NextDetect ==
    \/ \E condition_id \in Cids, current_volume \in CurVolumes :
          DetectVolumeAnomaly(condition_id, current_volume)
    \/ \E condition_id \in Cids, current_price \in CurPrices :
          AnalyzePriceVolatility(condition_id, current_price)
    \/ Tick

SpecDetect == InitDetect /\ [][NextDetect]_vars

\* --------------------------------------------------- the three analyzers
SnapA == [volume24hr |-> 6000, yes_price |-> 50]

SnapB == [volume24hr |-> 6500, yes_price |-> 52]

\* the snapshots stored for market m1 so far, oldest first
MainSeeds ==
    {<<>>, <<SnapA, SnapA, SnapA, SnapA, SnapA>>,
     <<SnapA, SnapA, SnapA, SnapA, SnapB>>, <<SnapA, SnapB, SnapA, SnapB, SnapA>>}

Trade(wallet_address, condition_id, trade_amount) ==
    [wallet_address |-> wallet_address, condition_id |-> condition_id,
     trade_amount |-> trade_amount, timestamp |-> StoredAt(1)]

\* what the trade feed has written to wallet_activity
WalletSeeds ==
    {<<>>,
     <<Trade("w1", "m1", 11000)>>,
     <<Trade("w2", "m1", 2000), Trade("w2", "m1", 2000), Trade("w2", "m1", 2000)>>,
     <<Trade("w2", "m1", 2000), Trade("w1", "m1", 11000), Trade("w2", "m1", 2000),
       Trade("w2", "m1", 2000), Trade("w1", "m2", 12000)>>}

Wallets == {"w1", "w2", "w3"}

TradeOutcome(wallet_address, profit_loss, trade_amount, hold, aware) ==
    [wallet_address |-> wallet_address, condition_id |-> "m1",
     profit_loss |-> profit_loss, trade_amount |-> trade_amount,
     entry_time |-> [t |-> StoredAt(1), aware |-> aware],
     hold_duration_hours |-> hold]

\* what the trade matcher has written to trade_outcomes: w1 only lost, w2 won
\* twice and lost once, w3 never traded
OutcomeRows ==
    <<TradeOutcome("w1", -200, 1000, 30, TRUE), TradeOutcome("w1", -100, 500, 1, TRUE),
      TradeOutcome("w2", 1500, 15000, 3, FALSE), TradeOutcome("w2", -300, 800, 0, FALSE),
      TradeOutcome("w2", 2500, 4000, 30, FALSE)>>

\* the row store_market_data writes to markets (endDate as the API gives it)
MarketRow(condition_id) ==
    [condition_id |-> condition_id,
     end_date |-> [t |-> StoredAt(1) + 5, aware |-> TRUE]]

\* creations on record for creator c1
CreationRows == <<[condition_id |-> "m0", creator_address |-> "c1"]>>

MinTrades == {1, 3, 10}

AlertMarkets ==
    {[conditionId |-> "m1", volume24hr |-> v, yes_price |-> p, liquidity |-> l,
      valid |-> TRUE] : v \in {4000, 6500, 6600, 6800}, p \in {52, 55, 57},
                        l \in {500, 1000}}
    \cup {[conditionId |-> "m2", volume24hr |-> 10000, yes_price |-> 52,
           liquidity |-> 500, valid |-> TRUE],
          [conditionId |-> "m1", volume24hr |-> 0, yes_price |-> 50,
           liquidity |-> 0, valid |-> FALSE]}

\* the markets the API may list for a scan
ScanMarkets ==
    {[conditionId |-> "m1", volume24hr |-> 6800, yes_price |-> 57,
      liquidity |-> 500, valid |-> TRUE],
     [conditionId |-> "m1", volume24hr |-> 6500, yes_price |-> 55,
      liquidity |-> 1000, valid |-> TRUE]}

MinVolumes == {5000, 6600}

Filler(k) == [i \in 1..k |-> "x"]

Questions ==
    {<<>>,
     <<"Will", "x", "nearby", "Dec", "31", "2025", "exactly">>,
     <<"Will", "before", "urgent", "immediately", "soon", "within", "quickly",
       "exactly", "precisely">> \o Filler(12)}

EndDates ==
    {[kind |-> "missing", t |-> 0], [kind |-> "utc", t |-> 100],
     [kind |-> "naive", t |-> 100], [kind |-> "naive", t |-> 500]}

CreationMarkets ==
    {[conditionId |-> "m1", question |-> q, creator |-> "c2", endDate |-> e,
      liquidity |-> 0] : q \in Questions, e \in EndDates}
    \cup {[conditionId |-> "m1", question |-> <<>>, creator |-> c,
           endDate |-> [kind |-> "missing", t |-> 0], liquidity |-> l] :
              c \in {"c1", "c2"}, l \in {500, 1000}}

\* a composite alert that also records the market it scored
GenerateCompositeAlert_storing(market_data) ==
    /\ report' = IF market_data.valid
                 THEN Returned("alert", market_data,
                               generate_composite_alert(market_data))
                 ELSE Raised("alert", market_data, "ValueError")
    /\ volume_history' = Append(volume_history,
                                [condition_id |-> market_data.conditionId,
                                 volume_24h |-> market_data.volume24hr,
                                 timestamp |-> now])
    /\ UNCHANGED <<now, price_history, wallet_activity, trade_outcomes,
                   market_creation_log, markets, current_markets,
                   market_history, market_creations, fetch_log, calls>>

GenerateCompositeAlert(market_data) ==
    /\ report' = IF market_data.valid
                 THEN Returned("alert", market_data,
                               generate_composite_alert(market_data))
                 ELSE Raised("alert", market_data, "ValueError")
    /\ UNCHANGED <<now, store, calls>>

\* fetched is the API's answer: the listed markets, or nothing on a failure
ScanMarketsCall(fetched, min_volume) ==
    /\ report' = Returned("scan", <<fetched, min_volume>>,
                          scan_markets(fetched, min_volume))
    /\ UNCHANGED <<now, store, calls>>

\* the report of a call that returned result.value or raised it
Outcome(kind, args, result) ==
    IF result.raised THEN Raised(kind, args, result.value)
    ELSE Returned(kind, args, result.value)

AnalyzeWalletProfitability(wallet_address) ==
    /\ report' = Outcome("profitability", wallet_address,
                         Ok(analyze_wallet_profitability(wallet_address)))
    /\ UNCHANGED <<now, store, calls>>

AnalyzeMarketImpact(wallet_address) ==
    /\ report' = Outcome("market_impact", wallet_address,
                         analyze_market_impact(wallet_address))
    /\ UNCHANGED <<now, store, calls>>

GenerateWalletReport(wallet_address) ==
    /\ report' = Outcome("wallet", wallet_address,
                         generate_wallet_report(wallet_address))
    /\ UNCHANGED <<now, store, calls>>

DetectTimingAnomalies(wallet_address) ==
    /\ report' = Outcome("timing", wallet_address,
                         detect_timing_anomalies(wallet_address))
    /\ UNCHANGED <<now, store, calls>>

FlagSuspiciousWallets(min_trades) ==
    /\ report' = Outcome("flag", min_trades, flag_suspicious_wallets(min_trades))
    /\ UNCHANGED <<now, store, calls>>

DetectMarketCreationAnomaly(market_data) ==
    /\ report' = Outcome("creation", market_data,
                         detect_market_creation_anomaly(market_data))
    /\ UNCHANGED <<now, store, calls>>

Init ==
    /\ \E snaps \in MainSeeds :
          /\ volume_history = OtherVolumeRows \o VolumeRows("m1", snaps)
          /\ price_history = OtherPriceRows \o PriceRows("m1", snaps)
          /\ now = StoredAt(Len(snaps))
    /\ wallet_activity \in WalletSeeds
    /\ trade_outcomes = OutcomeRows
    /\ market_creation_log = CreationRows
    /\ markets = <<MarketRow("m2"), MarketRow("m1")>>
    /\ ServiceEmpty /\ NoCalls
    /\ report = NoReport

Next ==
    \/ \E market_data \in AlertMarkets : GenerateCompositeAlert(market_data)
    \/ \E fetched \in SeqsUpTo(ScanMarkets, MaxScan), min_volume \in MinVolumes :
          ScanMarketsCall(fetched, min_volume)
    \/ \E condition_id \in Cids, current_volume \in {5000, 6800} :
          DetectVolumeAnomaly(condition_id, current_volume)
    \/ \E condition_id \in Cids, current_price \in {50, 57} :
          AnalyzePriceVolatility(condition_id, current_price)
    \/ \E wallet_address \in Wallets : AnalyzeWalletProfitability(wallet_address)
    \/ \E wallet_address \in Wallets : AnalyzeMarketImpact(wallet_address)
    \/ \E wallet_address \in Wallets : GenerateWalletReport(wallet_address)
    \/ \E wallet_address \in Wallets : DetectTimingAnomalies(wallet_address)
    \/ \E min_trades \in MinTrades : FlagSuspiciousWallets(min_trades)
    \/ \E market_data \in CreationMarkets : DetectMarketCreationAnomaly(market_data)
    \/ Tick

Spec == Init /\ [][Next]_vars

\* ======================================================== the properties
\* A report describes the present store and clock.
Fresh == report.at = now

IsVolumeReport == report.kind = "volume" /\ ~report.raised /\ Fresh

IsPriceReport == report.kind = "price" /\ ~report.raised /\ Fresh

\* z(a) <= z(b) for two z-scores
ZLeq(a, b) ==
    IF a.n = b.n /\ a.dev2 = b.dev2 THEN a.num <= b.num
    ELSE a.num * a.num * a.n * b.dev2 <= b.num * b.num * b.n * a.dev2

\* C3: a detector short of its minimum sample count (5 volume samples, 2 price
\* samples) returns score 0 and an insufficient-data rationale, whatever the
\* current value.
C3_InsufficientData ==
    /\ (IsVolumeReport /\ Len(SelectVolumeHistory(report.args[1])) < 5)
         => /\ report.value.score = ZeroZ
            /\ report.value.description = "Insufficient historical data"
    /\ (IsPriceReport /\ Len(SelectPriceHistory(report.args[1])) < 2)
         => /\ report.value.score = ZeroRatio
            /\ report.value.description = "Insufficient price history"

C3_Witness ==
    /\ IsVolumeReport
    /\ report.args = <<"m1", 500>>
    /\ Len(SelectVolumeHistory("m1")) = 4
    /\ Dev2(SelectVolumeHistory("m1")) > 0
    /\ report.value.description = "Insufficient historical data"

\* a rationale that names the degenerate case: none of the detector's other
\* rationales
NoVarianceRationale(description) ==
    description \notin {"Normal trading volume", "Insufficient historical data",
                        "Volume spike above normal (unusual)",
                        "Volume spike above normal (highly unusual)",
                        "Volume spike above normal (extremely unusual)"}

\* C4: with at least 5 samples, all equal (zero standard deviation), the volume
\* detector returns score 0 together with a "no variance" rationale, for every
\* current volume.
C4_NoVariance ==
    (/\ IsVolumeReport
     /\ Len(SelectVolumeHistory(report.args[1])) >= 5
     /\ \A i \in 1..Len(SelectVolumeHistory(report.args[1])) :
           SelectVolumeHistory(report.args[1])[i]
               = SelectVolumeHistory(report.args[1])[1])
    => /\ report.value.score = ZeroZ
       /\ NoVarianceRationale(report.value.description)

\* the z-score the claim describes: max(0, (current - mean) / sigma) with the
\* population standard deviation
ClaimedZ(current, hist) ==
    LET n == Len(hist)
        S == SumSeq(hist)
    IN  [num |-> IF n * current > S THEN n * current - S ELSE 0,
         n |-> n,
         dev2 |-> SumSeq([i \in 1..n |-> (n * hist[i] - S) * (n * hist[i] - S)])]

ClaimedVolumeLevel(z) ==
    IF ZGt(z, 4) THEN "EXTREME"
    ELSE IF ZGt(z, 3) THEN "HIGH"
    ELSE IF ZGt(z, 2) THEN "MODERATE" ELSE "NORMAL"

VolumeRationale(level) ==
    CASE level = "EXTREME" -> "Volume spike above normal (extremely unusual)"
      [] level = "HIGH" -> "Volume spike above normal (highly unusual)"
      [] level = "MODERATE" -> "Volume spike above normal (unusual)"
      [] OTHER -> "Normal trading volume"

\* C5: with at least 5 samples and non-zero population standard deviation the
\* volume score is z = max(0, (current - mean) / sigma); a current volume at or
\* below the mean scores 0; the tier is EXTREME for z > 4, HIGH for 3 < z <= 4,
\* MODERATE for 2 < z <= 3 and NORMAL otherwise; [10,12,11,13,12] with current
\* 20 is EXTREME.
C5_ZScoreAndTier ==
    IsVolumeReport =>
        LET hist == SelectVolumeHistory(report.args[1])
            current == report.args[2]
            z == ClaimedZ(current, hist)
        IN  (Len(hist) >= 5 /\ z.dev2 > 0) =>
              /\ report.value.score = z
              /\ (Len(hist) * current <= SumSeq(hist)) => report.value.score.num = 0
              /\ report.value.level = ClaimedVolumeLevel(z)
              /\ report.value.description = VolumeRationale(ClaimedVolumeLevel(z))
              /\ (hist = <<12, 13, 11, 12, 10>> /\ current = 20)
                    => report.value.level = "EXTREME"

C5_Witness ==
    /\ IsVolumeReport
    /\ SelectVolumeHistory(report.args[1]) = <<12, 13, 11, 12, 10>>
    /\ report.args[2] = 20
    /\ report.value.level = "EXTREME"

\* C6: for a fixed stored baseline and current volumes v1 <= v2, the z-score of
\* v2 is at least the z-score of v1.
C6_Monotone ==
    IsVolumeReport =>
        \A v \in CurVolumes :
            LET z == detect_volume_anomaly(report.args[1], v).score
            IN  /\ v <= report.args[2] => ZLeq(z, report.value.score)
                /\ report.args[2] <= v => ZLeq(report.value.score, z)

C6_Witness ==
    /\ IsVolumeReport
    /\ report.value.score.num > 0
    /\ \E v1 \in CurVolumes :
          /\ v1 < report.args[2]
          /\ detect_volume_anomaly(report.args[1], v1).score.num > 0
          /\ detect_volume_anomaly(report.args[1], v1).score.num
               < report.value.score.num

\* the stored price with the latest timestamp among those the query reads
LatestPrice(condition_id) ==
    LET rows == {i \in 1..Len(price_history) :
                    /\ price_history[i].condition_id = condition_id
                    /\ price_history[i].timestamp >= now - 24}
        last == CHOOSE i \in rows :
                    \A j \in rows : price_history[j].timestamp
                                       <= price_history[i].timestamp
    IN  price_history[last].yes_prob

ClaimedPriceLevel(r) ==
    IF RatioGt(r, 3) THEN "HIGH"
    ELSE IF RatioGt(r, 2) THEN "MODERATE" ELSE "NORMAL"

\* C7: with at least 2 price samples the volatility score is
\* |current - most recent price| / mean absolute consecutive difference (0 when
\* that mean is 0), the most recent price being the sample of latest timestamp;
\* the tier is HIGH for ratio > 3, MODERATE for 2 < ratio <= 3, NORMAL
\* otherwise; [0.50, 0.52, 0.51] with current 0.80 is HIGH.
C7_VolatilityRatio ==
    IsPriceReport =>
        LET prices == SelectPriceHistory(report.args[1])
            current == report.args[2]
            n == Len(prices)
            total == SumSeq([i \in 1..(n - 1) |-> Abs(prices[i + 1] - prices[i])])
            ratio == IF total > 0
                     THEN [num |-> Abs(current - LatestPrice(report.args[1])) * (n - 1),
                           den |-> total]
                     ELSE ZeroRatio
        IN  n >= 2 =>
              /\ report.value.score = ratio
              /\ report.value.level = ClaimedPriceLevel(ratio)
              /\ (prices = <<50, 52, 51>> /\ current = 80)
                    => report.value.level = "HIGH"

C7_Witness ==
    /\ IsPriceReport
    /\ SelectPriceHistory(report.args[1]) = <<50, 52, 51>>
    /\ report.args[2] = 80
    /\ report.value.level = "HIGH"
    /\ report.value.score = [num |-> 58, den |-> 3]

\* ------------------------------------------------------------- Spec: scores
IsAlertReport == report.kind = "alert" /\ ~report.raised

\* the risk score a wallet report carries for given component scores
ReportedRisk100(insider_score, manipulation_score, timing_count) ==
    Min(10000, RiskScore100(insider_score, manipulation_score, timing_count))

\* C1: every composite score that is reported lies in [0,100]: the alert_score
\* of generate_composite_alert (also inside a scan), the risk_score of
\* generate_wallet_report and the insider_creation_score of
\* detect_market_creation_anomaly (the last two held in hundredths).
C1_ScoresInRange ==
    /\ IsAlertReport => report.value.alert_score \in 0..100
    /\ report.kind = "scan"
         => \A i \in 1..Len(report.value) : report.value[i].alert_score \in 0..100
    /\ (report.kind = "wallet" /\ ~report.raised)
         => report.value.risk_score100 \in 0..10000
    /\ (report.kind = "creation" /\ ~report.raised)
         => report.value.insider_creation_score100 \in 0..10000
    /\ \A insider_score \in {0, 45, 100}, manipulation_score \in {0, 50, 75},
          timing_count \in {0, 1, 12, 40} :
            ReportedRisk100(insider_score, manipulation_score, timing_count)
                \in 0..10000

C1_Witness ==
    /\ IsAlertReport
    /\ report.value.alert_score = 100
    /\ \A i \in 1..Len(report.value.wallet_anomalies) :
          report.value.wallet_anomalies[i].severity = "HIGH"

ClaimedVolumePoints(z) ==
    IF ZGt(z, 3) THEN 40 ELSE IF ZGt(z, 2) /\ ~ZGt(z, 3) THEN 25 ELSE 0

ClaimedPricePoints(r) ==
    IF RatioGt(r, 3) THEN 25 ELSE IF RatioGt(r, 2) /\ ~RatioGt(r, 3) THEN 15 ELSE 0

ClaimedWalletPoints(anomalies) ==
    IF \E i \in 1..Len(anomalies) : anomalies[i].severity = "HIGH" THEN 25
    ELSE IF \E i \in 1..Len(anomalies) : anomalies[i].severity = "MEDIUM" THEN 15
    ELSE 0

ClaimedMismatchPoints(liquidity, volume_24h) ==
    IF liquidity < 1000 /\ volume_24h > 5000 THEN 10 ELSE 0

\* C2: the alert score is the sum of 40/25 for the volume z-score (> 3, > 2),
\* 25/15 for the price ratio (> 3, > 2), 25 for any HIGH wallet anomaly of the
\* market or else 15 for any MEDIUM one (never both), and 10 when
\* liquidity < 1000 and volume_24h > 5000, clamped to [0,100]; the components
\* are the detectors' results for the market.
C2_AlertScore ==
    IsAlertReport =>
        LET v == report.value
            m == report.args
        IN  /\ Fresh =>
                  /\ v.volume_zscore
                       = detect_volume_anomaly(m.conditionId, m.volume24hr).score
                  /\ v.price_volatility
                       = analyze_price_volatility(m.conditionId, m.yes_price).score
                  /\ v.wallet_anomalies = detect_wallet_anomalies(m.conditionId)
            /\ v.alert_score
                 = Max(0, Min(100, ClaimedVolumePoints(v.volume_zscore)
                                   + ClaimedPricePoints(v.price_volatility)
                                   + ClaimedWalletPoints(v.wallet_anomalies)
                                   + ClaimedMismatchPoints(m.liquidity, m.volume24hr)))

C2_Witness ==
    /\ IsAlertReport
    /\ \E i \in 1..Len(report.value.wallet_anomalies) :
          report.value.wallet_anomalies[i].severity = "HIGH"
    /\ \E i \in 1..Len(report.value.wallet_anomalies) :
          report.value.wallet_anomalies[i].severity = "MEDIUM"
    /\ ZGt(report.value.volume_zscore, 2) /\ ~ZGt(report.value.volume_zscore, 3)
    /\ RatioGt(report.value.price_volatility, 3)
    /\ report.args.liquidity < 1000
    /\ report.value.alert_score = 85

\* C8: a ratio whose denominator is zero evaluates to 0 and its function does
\* not raise: the price ratio when the mean historical change is 0, the
\* market impact of a wallet, and the win rate and quick-profit ratio of a
\* wallet with no trades or with no profitable trade.
C8_ZeroDenominator ==
    /\ (report.kind = "price" /\ Fresh)
         => /\ ~report.raised
            /\ LET prices == SelectPriceHistory(report.args[1])
               IN  (Len(prices) >= 2 /\ SumSeq(PriceChanges(prices)) = 0)
                      => report.value.score = ZeroRatio
    /\ report.kind = "market_impact" => ~report.raised
    /\ report.kind = "profitability"
         => /\ ~report.raised
            /\ \A i \in 1..Len(trade_outcomes) :
                    (trade_outcomes[i].wallet_address = report.args
                        => trade_outcomes[i].profit_loss <= 0)
                  => /\ report.value.win_rate = ZeroRatio
                     /\ "quick_profit_ratio" \in DOMAIN report.value
                     /\ report.value.quick_profit_ratio = ZeroRatio

AlertOf(market) ==
    [condition_id |-> market.conditionId, current_volume |-> market.volume24hr,
     current_price |-> market.yes_price]

\* C9: scan_markets reports a market only if its alert score is above 30 and
\* its 24h volume is at least min_volume, every reported alert is the alert of
\* a listed market, and the alerts are in non-increasing alert_score order.
C9_ScanThreshold ==
    report.kind = "scan" =>
        LET alerts == report.value
            fetched == report.args[1]
            min_volume == report.args[2]
        IN  /\ ~report.raised
            /\ Len(alerts) <= Len(fetched)
            /\ \A i \in 1..Len(alerts) :
                  /\ alerts[i].alert_score > 30
                  /\ alerts[i].current_volume >= min_volume
                  /\ \E j \in 1..Len(fetched) :
                        /\ AlertOf(fetched[j])
                             = [condition_id |-> alerts[i].condition_id,
                                current_volume |-> alerts[i].current_volume,
                                current_price |-> alerts[i].current_price]
                        /\ Fresh => generate_composite_alert(fetched[j]).alert_score
                                      = alerts[i].alert_score
            /\ \A i \in 1..(Len(alerts) - 1) :
                  alerts[i].alert_score >= alerts[i + 1].alert_score

C9_Witness ==
    /\ report.kind = "scan" /\ Fresh
    /\ Len(report.args[1]) = 2 /\ Len(report.value) = 1
    /\ report.args[1][1].volume24hr >= report.args[2]
    /\ generate_composite_alert(report.args[1][1]).alert_score = 30
    /\ report.value[1].condition_id = report.args[1][2].conditionId

\* whether the history windows select the same stored rows at t1 and at t2
SameWindows(t1, t2) ==
    /\ \A i \in 1..Len(volume_history) :
          (volume_history[i].timestamp > t1 - VolumeWindowHours)
              = (volume_history[i].timestamp > t2 - VolumeWindowHours)
    /\ \A i \in 1..Len(price_history) :
          (price_history[i].timestamp > t1 - PriceWindowHours)
              = (price_history[i].timestamp > t2 - PriceWindowHours)
    /\ \A i \in 1..Len(wallet_activity) :
          (wallet_activity[i].timestamp > t1 - WalletWindowHours)
              = (wallet_activity[i].timestamp > t2 - WalletWindowHours)

AlertVerdict(a) ==
    [alert_score |-> a.alert_score, alerts |-> a.alerts,
     volume_zscore |-> a.volume_zscore, price_volatility |-> a.price_volatility,
     wallet_anomalies |-> a.wallet_anomalies]

\* score, tier and reasons of a report, without the time it was made
Verdict(r) ==
    IF r.raised THEN <<"raised", r.value>>
    ELSE CASE r.kind = "alert" -> <<"alert", AlertVerdict(r.value)>>
           [] r.kind = "scan" ->
                <<"scan", [i \in 1..Len(r.value) |-> AlertVerdict(r.value[i])]>>
           [] r.kind = "creation" ->
                <<"creation", r.value.insider_creation_score100,
                  r.value.anomaly_level, r.value.timing_analysis.timing_reasons>>
           [] OTHER -> <<r.kind, r.value>>

\* C10: a detector invoked again with the same arguments on the same stored
\* rows (the same rows inside its history windows) gives the same score, tier
\* and reasons, whatever the wall-clock time of the second invocation.
C10_Idempotent ==
    [][(/\ report.kind # "none"
        /\ report'.kind = report.kind
        /\ report'.args = report.args
        /\ store' = store
        /\ SameWindows(report.at, report'.at))
          => Verdict(report') = Verdict(report)]_vars

\* --------------------------------------------------------- Spec: totality
\* a call whose arguments have the types the function expects
ValidlyTyped(r) == r.kind = "alert" => r.args.valid

\* C11: a detector-level function called on validly-typed input returns a
\* result and does not raise: detect_market_creation_anomaly for an endDate
\* ending in 'Z' and for a creator with creations on record,
\* generate_wallet_report for a wallet with zero or more trades and outcomes.
C11_NeverRaises ==
    (report.kind # "none" /\ ValidlyTyped(report)) => ~report.raised

\* the kinds of report the scoring calls of the main specification make
ScoringKinds ==
    {"alert", "scan", "volume", "price", "profitability", "market_impact",
     "wallet", "timing", "flag", "creation"}

\* C14: scoring calls are read-only: no step of any sequence of
\* generate_composite_alert, scan_markets, generate_wallet_report,
\* flag_suspicious_wallets and detect_market_creation_anomaly calls (and of
\* the detectors they are made of) changes a stored table, whether the call
\* returns or raises
C14_ReadOnly ==
    [][/\ store' = store
       /\ report' # report => report'.kind \in ScoringKinds]_vars

\* a scan has returned alerts and a wallet flagging has been attempted over
\* tables that hold rows
C14_Witness ==
    /\ report.kind \in {"scan", "flag", "creation"}
    /\ report.kind = "scan" => Len(report.value) > 0
    /\ volume_history # <<>> /\ trade_outcomes # <<>>
    /\ market_creation_log # <<>>

\* -------------------------------------------------------------- SpecConc
\* generate_composite_alert and store_market_data as two processes on the
\* database file. Each detector opens its own connection and runs one query,
\* which sees the rows committed so far; store_market_data executes its three
\* INSERTs in one transaction, which other connections see at conn.commit().
\* the alert the call would return if it ran entirely on the present store
PresentView(market_data) == AlertVerdict(generate_composite_alert(market_data))

\* lines 263-266; views records, at each query, the alert the present store
\* gives (history kept for the read-consistency property)
AlertBegin(market_data) ==
    /\ alert_call = Idle
    /\ market_data.valid
    /\ alert_call' = [pc |-> "volume", market_data |-> market_data,
                      volume |-> <<>>, price |-> <<>>, wallet_anomalies |-> <<>>,
                      views |-> <<>>]
    /\ UNCHANGED <<now, store, store_call, background, report>>

\* line 269
AlertDetectVolume ==
    /\ alert_call.pc = "volume"
    /\ alert_call' =
          [alert_call EXCEPT
              !.pc = "price",
              !.volume = detect_volume_anomaly(alert_call.market_data.conditionId,
                                               alert_call.market_data.volume24hr),
              !.views = Append(@, PresentView(alert_call.market_data))]
    /\ UNCHANGED <<now, store, store_call, background, report>>

\* line 270
AlertAnalyzePrice ==
    /\ alert_call.pc = "price"
    /\ alert_call' =
          [alert_call EXCEPT
              !.pc = "wallet",
              !.price = analyze_price_volatility(alert_call.market_data.conditionId,
                                                 alert_call.market_data.yes_price),
              !.views = Append(@, PresentView(alert_call.market_data))]
    /\ UNCHANGED <<now, store, store_call, background, report>>

\* line 271
AlertDetectWallets ==
    /\ alert_call.pc = "wallet"
    /\ alert_call' =
          [alert_call EXCEPT
              !.pc = "return",
              !.wallet_anomalies
                  = detect_wallet_anomalies(alert_call.market_data.conditionId),
              !.views = Append(@, PresentView(alert_call.market_data))]
    /\ UNCHANGED <<now, store, store_call, background, report>>

\* lines 273-321
AlertReturn ==
    /\ alert_call.pc = "return"
    /\ report' = Returned("alert", alert_call.market_data,
                          CompositeAlert(alert_call.market_data, alert_call.volume,
                                         alert_call.price,
                                         alert_call.wallet_anomalies))
    /\ alert_call' = Idle
    /\ UNCHANGED <<now, store, store_call, background>>

\* store_market_data up to its commit: the three INSERTs, stamped
\* datetime.now(), are pending in the writer's transaction
StoreBegin(market_data) ==
    /\ store_call = Idle
    /\ market_data.valid
    /\ Len(volume_history) < MaxHist + 2
    /\ store_call' = [pc |-> "commit", market_data |-> market_data, at |-> now]
    /\ UNCHANGED <<now, store, alert_call, background, report>>

\* conn.commit(): the three rows become visible together
StoreCommit ==
    /\ store_call.pc = "commit"
    /\ LET market_data == store_call.market_data
           Others(r) == r.condition_id # market_data.conditionId
       IN  /\ markets' = Append(SelectSeq(markets, Others),
                                [condition_id |-> market_data.conditionId,
                                 end_date |-> MarketRow(market_data.conditionId).end_date])
           /\ volume_history' = Append(volume_history,
                                       [condition_id |-> market_data.conditionId,
                                        volume_24h |-> market_data.volume24hr,
                                        timestamp |-> store_call.at])
           /\ price_history' = Append(price_history,
                                      [condition_id |-> market_data.conditionId,
                                       yes_prob |-> market_data.yes_price,
                                       timestamp |-> store_call.at])
    /\ store_call' = Idle
    /\ UNCHANGED <<now, wallet_activity, trade_outcomes, market_creation_log,
                   current_markets, market_history, market_creations, fetch_log,
                   alert_call, background, report>>

\* the snapshots the service stores and the alerts it asks for
ConcMarkets ==
    {[conditionId |-> "m1", volume24hr |-> 6800, yes_price |-> 57,
      liquidity |-> 500, valid |-> TRUE],
     [conditionId |-> "m1", volume24hr |-> 6000, yes_price |-> 50,
      liquidity |-> 1000, valid |-> TRUE],
     [conditionId |-> "m2", volume24hr |-> 10000, yes_price |-> 52,
      liquidity |-> 500, valid |-> TRUE]}

InitConc ==
    /\ \E snaps \in {<<SnapA, SnapA, SnapA, SnapA, SnapB>>,
                      <<SnapA, SnapB, SnapA, SnapB, SnapA>>} :
          /\ volume_history = OtherVolumeRows \o VolumeRows("m1", snaps)
          /\ price_history = OtherPriceRows \o PriceRows("m1", snaps)
          /\ now = StoredAt(Len(snaps)) + 1
    /\ wallet_activity \in WalletSeeds
    /\ trade_outcomes = OutcomeRows
    /\ market_creation_log = CreationRows
    /\ markets = <<MarketRow("m2"), MarketRow("m1")>>
    /\ ServiceEmpty /\ NoCalls
    /\ report = NoReport

NextConc ==
    \/ \E market_data \in ConcMarkets : AlertBegin(market_data)
    \/ AlertDetectVolume
    \/ AlertAnalyzePrice
    \/ AlertDetectWallets
    \/ AlertReturn
    \/ \E market_data \in ConcMarkets : StoreBegin(market_data)
    \/ StoreCommit

SpecConc == InitConc /\ [][NextConc]_vars

\* ------------------------------------------------------------- SpecBatch
ApiMarketA ==
    [conditionId |-> "m1", volume24hr |-> 6800, yes_price |-> 57,
     liquidity |-> 500, valid |-> TRUE]

\* a listed market whose volume24hr is not a number
ApiMarketX ==
    [conditionId |-> "m2", volume24hr |-> 0, yes_price |-> 50,
     liquidity |-> 0, valid |-> FALSE]

ApiMarkets == {ApiMarketA, ApiMarketX}

\* the answers the API may give to one request
ApiResponses(limit) ==
    {ApiOk(batch) : batch \in SeqsUpTo(ApiMarkets, limit)}
        \cup {ApiError, ApiException}

\* scan_markets with its fetch: the scheduled scan
ScanMarketsRun(response, min_volume) ==
    /\ report' = Returned("scan_run", <<response, min_volume>>,
                          scan_markets(get_current_markets(response), min_volume))
    /\ UNCHANGED <<now, store, calls>>

\* fetch_and_store: the scheduled fetch cycle of the data service
FetchAndStore(responses, fault) ==
    LET fetched == fetch_markets_from_api(responses)
        stored == service_store_market_data(fetched, fault)
    IN  /\ Len(fetch_log) < MaxFetches
        /\ current_markets' = stored.current_markets
        /\ market_history' = stored.market_history
        /\ market_creations' = stored.market_creations
        /\ fetch_log' = stored.fetch_log
        /\ report' = Returned("fetch_and_store", <<responses, fault>>,
                              [markets |-> fetched, success |-> stored.success])
        /\ UNCHANGED <<now, volume_history, price_history, wallet_activity,
                       trade_outcomes, market_creation_log, markets, calls>>

InitBatch ==
    /\ \E snaps \in {<<>>, <<SnapA, SnapA, SnapA, SnapA, SnapB>>} :
          /\ volume_history = OtherVolumeRows \o VolumeRows("m1", snaps)
          /\ price_history = OtherPriceRows \o PriceRows("m1", snaps)
          /\ now = StoredAt(Len(snaps))
    /\ wallet_activity \in {<<>>, <<Trade("w1", "m1", 11000)>>}
    /\ trade_outcomes = OutcomeRows
    /\ market_creation_log = CreationRows
    /\ markets = <<MarketRow("m2"), MarketRow("m1")>>
    /\ ServiceEmpty /\ NoCalls
    /\ report = NoReport

NextBatch ==
    \/ \E response \in ApiResponses(MaxScan), min_volume \in MinVolumes :
          ScanMarketsRun(response, min_volume)
    \/ \E responses \in SeqsUpTo(ApiResponses(PageLimit), MaxPages),
          fault \in StoreFaults :
          FetchAndStore(responses, fault)
    \/ \E min_trades \in MinTrades : FlagSuspiciousWallets(min_trades)
    \/ Tick

SpecBatch == InitBatch /\ [][NextBatch]_vars

\* whether the alert of listed market m is among the alerts returned
Reported(alerts, m) ==
    \E i \in 1..Len(alerts) :
        /\ alerts[i].condition_id = m.conditionId
        /\ alerts[i].current_volume = m.volume24hr
        /\ alerts[i].current_price = m.yes_price

\* C12: a failure on one entity does not abort a batch. scan_markets returns
\* the alert of every listed market that qualifies although another listed
\* market raises; the data service's store_market_data stores every market of
\* the batch that parses although another does not; flag_suspicious_wallets
\* returns its results although the report of one wallet raises.
C12_BatchSurvives ==
    /\ (report.kind = "scan_run" /\ Fresh) =>
          /\ ~report.raised
          /\ LET fetched == get_current_markets(report.args[1])
             IN  \A j \in 1..Len(fetched) :
                    ScanKeeps(fetched[j], report.args[2])
                        => Reported(report.value, fetched[j])
    /\ (report.kind = "fetch_and_store" /\ Fresh /\ report.args[2] = "none") =>
          /\ ~report.raised
          /\ report.value.markets # <<>> => report.value.success
          /\ \A j \in 1..Len(report.value.markets) :
                report.value.markets[j].valid =>
                    \E i \in 1..Len(market_history) :
                        /\ market_history[i].condition_id
                             = report.value.markets[j].conditionId
                        /\ market_history[i].volume_24h
                             = report.value.markets[j].volume24hr
                        /\ market_history[i].fetch_timestamp = report.at
    /\ report.kind = "flag" => ~report.raised

RECURSIVE FetchFailed(_)
\* whether one of the requests the fetch loop makes fails: the first, or a
\* later one reached through full pages
FetchFailed(responses) ==
    /\ responses # <<>>
    /\ \/ Head(responses).kind # "ok"
       \/ /\ Len(Head(responses).batch) >= PageLimit
          /\ FetchFailed(Tail(responses))

\* C15: when the upstream source fails, on the first page or on a later one,
\* the fetch yields an empty result set and the run (scan_markets,
\* fetch_and_store) completes without raising and without storing anything.
C15_UpstreamFailure ==
    [][/\ (report'.kind = "fetch_and_store" /\ FetchFailed(report'.args[1]))
            => /\ ~report'.raised
               /\ report'.value.markets = <<>>
               /\ ~report'.value.success
               /\ store' = store
       /\ (report'.kind = "scan_run" /\ report'.args[1].kind # "ok")
            => /\ ~report'.raised
               /\ report'.value = <<>>
               /\ store' = store]_vars

RECURSIVE Gcd(_, _)
Gcd(a, b) == IF b = 0 THEN a ELSE Gcd(b, a % b)

\* the square of a z-score as a fraction in lowest terms
ZSquared(z) ==
    LET p == z.num * z.num * z.n
        g == Gcd(p, z.dev2)
    IN  IF z.num <= 0 THEN <<0, 1>> ELSE <<p \div g, z.dev2 \div g>>

\* whether two alerts carry the same score, reasons and component values
SameVerdict(a, b) ==
    /\ a.alert_score = b.alert_score
    /\ a.alerts = b.alerts
    /\ a.wallet_anomalies = b.wallet_anomalies
    /\ ZSquared(a.volume_zscore) = ZSquared(b.volume_zscore)
    /\ a.price_volatility.num * b.price_volatility.den
         = b.price_volatility.num * a.price_volatility.den

\* C13: a composite alert is computed on one point-in-time state of the store:
\* the alert a call returns is the alert that one of the store states present
\* during the call gives (all components from before a concurrent write, or
\* all from after it).
C13_ReadConsistent ==
    [][(alert_call.pc = "return" /\ alert_call'.pc = "idle")
          => \E i \in 1..Len(alert_call.views) :
                SameVerdict(report'.value, alert_call.views[i])]_vars

\* ------------------------------------------------ the wallet analyzer alone
\* the market every recorded trade was made in, as stored in table markets
TradedMarket ==
    [condition_id |-> "m1", end_date |-> [t |-> StoredAt(8), aware |-> TRUE]]

\* a row of trade_outcomes entered hours_before hours before the market's
\* end date (after it when negative)
TradeAt(wallet_address, profit_loss, trade_amount, hours_before, hold, aware) ==
    [wallet_address |-> wallet_address, condition_id |-> "m1",
     profit_loss |-> profit_loss, trade_amount |-> trade_amount,
     entry_time |-> [t |-> TradedMarket.end_date.t - hours_before,
                     aware |-> aware],
     hold_duration_hours |-> hold]

\* The trades of a wallet w1: wins winning trades of win_pnl each, of which
\* the first quick were held 3 hours, the next zero were closed with a hold
\* duration of 0 and the rest were held 30 hours; then losses losing trades
\* of loss_pnl each. The first trade has amount max_trade, the others 1000;
\* every trade was entered hours_before hours before resolution.
Profile(wins, win_pnl, losses, loss_pnl, quick, zero, max_trade, hours_before) ==
    [i \in 1..(wins + losses) |->
        TradeAt("w1",
                IF i <= wins THEN win_pnl ELSE loss_pnl,
                IF i = 1 THEN max_trade ELSE 1000,
                hours_before,
                IF i <= quick THEN 3
                ELSE IF i <= quick + zero THEN 0 ELSE 30,
                TRUE)]

Profiles ==
    {Profile(wins, win_pnl, losses, loss_pnl, qz[1], qz[2], max_trade, hb) :
        wins \in {8, 10}, win_pnl \in {900, 2400}, losses \in {0, 2},
        loss_pnl \in {-4000, -3000}, qz \in {<<8, 0>>, <<7, 1>>, <<7, 0>>},
        max_trade \in {10000, 15000}, hb \in {5, 30}}

\* twelve trades, ten of them won: win rate 0.83, profit factor 4, average
\* profit 1500, eight of the ten wins held 3 hours, largest trade 15000
ExampleProfile == Profile(10, 2400, 2, -3000, 8, 0, 15000, 30)

\* the one trade of a wallet w2
SingleTrades ==
    {<<TradeAt("w2", 500, 2000, hours_before, hold, aware)>> :
        hours_before \in {-1, 0, 1, 5, 6, 23, 24}, hold \in {0, 1, 2},
        aware \in {TRUE}}
    \cup {<<TradeAt("w2", 500, 2000, 5, 1, FALSE)>>, <<>>}

InitWallet ==
    /\ now = StoredAt(8)
    /\ volume_history = <<>> /\ price_history = <<>>
    /\ wallet_activity \in {<<>>, <<Trade("w1", "m1", 11000)>>}
    /\ \/ \E profile \in Profiles :
             trade_outcomes = profile \o <<TradeAt("w2", 500, 2000, 5, 1, TRUE)>>
       \/ \E single \in SingleTrades :
             trade_outcomes = ExampleProfile \o single
    /\ market_creation_log = <<>>
    /\ markets = <<TradedMarket>>
    /\ ServiceEmpty /\ NoCalls
    /\ report = NoReport

NextWallet ==
    \/ \E wallet_address \in Wallets : AnalyzeWalletProfitability(wallet_address)
    \/ \E wallet_address \in Wallets : DetectTimingAnomalies(wallet_address)
    \/ \E wallet_address \in Wallets : AnalyzeMarketImpact(wallet_address)
    \/ \E wallet_address \in Wallets : GenerateWalletReport(wallet_address)
    \/ \E min_trades \in MinTrades : FlagSuspiciousWallets(min_trades)

SpecWallet == InitWallet /\ [][NextWallet]_vars

\* the insider score of the stated rule: +30 win rate > 0.8 with at least 10
\* trades, +25 profit factor > 3 (infinite without losses when something was
\* won), +20 average profit > 1000, +15 more than 0.7 of the profitable
\* trades held under 24 hours, +10 largest trade > 10000; capped at 100
ClaimedInsiderScore(wallet_address) ==
    LET trades == SelectTradeOutcomes(wallet_address)
        n == Len(trades)
        Won(r) == r.profit_loss > 0
        Lost(r) == r.profit_loss < 0
        QuickWon(r) == r.profit_loss > 0 /\ r.hold_duration_hours < 24
        won == SelectSeq(trades, Won)
        lost == SelectSeq(trades, Lost)
        gained == SumSeq([i \in 1..Len(won) |-> won[i].profit_loss])
        given == Abs(SumSeq([i \in 1..Len(lost) |-> lost[i].profit_loss]))
        net == SumSeq([i \in 1..n |-> trades[i].profit_loss])
    IN  IF n = 0 THEN 0
        ELSE Min(100,
                 (IF 5 * Len(won) > 4 * n /\ n >= 10 THEN 30 ELSE 0)
                 + (IF (given > 0 /\ gained > 3 * given)
                        \/ (given = 0 /\ gained > 0) THEN 25 ELSE 0)
                 + (IF net > 1000 * n THEN 20 ELSE 0)
                 + (IF Len(won) > 0
                        /\ 10 * Len(SelectSeq(trades, QuickWon)) > 7 * Len(won)
                    THEN 15 ELSE 0)
                 + (IF \E i \in 1..n : trades[i].trade_amount > 10000
                    THEN 10 ELSE 0))

\* C16: the insider score analyze_wallet_profitability returns for a wallet
\* is the capped sum of the five stated additions (30 win rate, 25 profit
\* factor, 20 average profit, 15 quick profitable exits, 10 largest trade)
\* taken over the wallet's recorded trades
C16_InsiderScore ==
    (report.kind = "profitability" /\ ~report.raised)
        => report.value.insider_score = ClaimedInsiderScore(report.args)

\* 100 times min(100, 0.4 * insider + 0.3 * manipulation
\*                    + 0.3 * min(100, 10 * timing_count))
ClaimedRisk100(insider_score, manipulation_score, timing_count) ==
    Min(10000, 40 * insider_score + 30 * manipulation_score
               + 30 * Min(100, 10 * timing_count))

\* C17: a wallet report is returned and its risk score is the stated weighted
\* sum of its own components, the timing-anomaly term capped at 100 before
\* weighting; and for the timing anomalies a call has just returned, the
\* score generate_wallet_report computes from them, the wallet's insider
\* score and a manipulation score of 0 is that stated sum
C17_RiskScore ==
    /\ report.kind = "wallet"
          => /\ ~report.raised
             /\ report.value.risk_score100
                  = ClaimedRisk100(
                        report.value.profitability_analysis.insider_score,
                        report.value.market_impact_analysis.market_manipulation_score,
                        report.value.total_anomalies)
    /\ (report.kind = "timing" /\ ~report.raised)
          => LET insider_score ==
                     analyze_wallet_profitability(report.args).insider_score
                 timing_count == Len(report.value)
             IN  Min(10000, RiskScore100(insider_score, 0, timing_count))
                     = ClaimedRisk100(insider_score, 0, timing_count)

\* the tier of a score (in hundredths) on the thresholds 70, 50 and 30
ClaimedTier(score100, tiers) ==
    IF score100 >= 7000 THEN tiers[1]
    ELSE IF score100 >= 5000 THEN tiers[2]
    ELSE IF score100 >= 3000 THEN tiers[3] ELSE tiers[4]

WalletTiers == <<"HIGH", "MEDIUM", "LOW", "NORMAL">>

WalletAdvice ==
    <<"IMMEDIATE INVESTIGATION REQUIRED", "CLOSE MONITORING ADVISED",
      "ROUTINE MONITORING", "NO CONCERN">>

CreationTiers == <<"EXTREME", "HIGH", "MODERATE", "LOW">>

CreationAdvice ==
    <<"IMMEDIATE INVESTIGATION", "PRIORITY MONITORING", "ROUTINE MONITORING",
      "NO CONCERN">>

\* the wallets flag_suspicious_wallets analyses: at least min_trades trades
Analysed(min_trades) ==
    {w \in Wallets : SelectTradeOutcomes(w) # <<>>
                      /\ Len(SelectTradeOutcomes(w)) >= min_trades}

\* C18: a market-creation report and a wallet report carry the tier of their
\* reported score on the thresholds 70, 50 and 30 with that tier's fixed
\* recommendation, a wallet report is returned for every wallet, and
\* flag_suspicious_wallets returns exactly the reports of the analysed wallets
\* whose tier is not NORMAL, in non-increasing order of risk score
C18_Tiers ==
    /\ (report.kind = "creation" /\ ~report.raised)
          => /\ report.value.anomaly_level
                  = ClaimedTier(report.value.insider_creation_score100,
                                CreationTiers)
             /\ report.value.recommendation
                  = ClaimedTier(report.value.insider_creation_score100,
                                CreationAdvice)
    /\ report.kind = "wallet"
          => /\ ~report.raised
             /\ report.value.risk_level
                  = ClaimedTier(report.value.risk_score100, WalletTiers)
             /\ report.value.recommendation
                  = ClaimedTier(report.value.risk_score100, WalletAdvice)
    /\ report.kind = "flag"
          => /\ ~report.raised
             /\ \A i \in 1..(Len(report.value) - 1) :
                    report.value[i].risk_score100
                        >= report.value[i + 1].risk_score100
             /\ \A i \in 1..Len(report.value) :
                    /\ report.value[i].wallet_address \in Analysed(report.args)
                    /\ report.value[i].risk_level # "NORMAL"
             /\ \A w \in Analysed(report.args) :
                    LET r == generate_wallet_report(w)
                    IN  /\ ~r.raised
                        /\ r.value.risk_level # "NORMAL"
                              => \E i \in 1..Len(report.value) :
                                    report.value[i] = r.value

\* the anomalies the stated rule gives one trade: LAST_MINUTE_TRADING when
\* 0 < hours to resolution < 24 (HIGH under 6 hours, else MEDIUM) and
\* QUICK_FLIP (MEDIUM) when the hold duration is under 2 hours
ClaimedTimingOf(trade) ==
    LET hours == trade.market_end.t - trade.entry_time.t
    IN  (IF 0 < hours /\ hours < 24
         THEN <<[type |-> "LAST_MINUTE_TRADING",
                 severity |-> IF hours < 6 THEN "HIGH" ELSE "MEDIUM",
                 condition_id |-> trade.condition_id]>>
         ELSE <<>>)
        \o
        (IF trade.hold_duration < 2
         THEN <<[type |-> "QUICK_FLIP", severity |-> "MEDIUM",
                 condition_id |-> trade.condition_id]>>
         ELSE <<>>)

RECURSIVE ClaimedTimings(_)
ClaimedTimings(trades) ==
    IF trades = <<>> THEN <<>>
    ELSE ClaimedTimingOf(Head(trades)) \o ClaimedTimings(Tail(trades))

\* C19: the anomalies detect_timing_anomalies returns for a wallet are, trade
\* by trade, a LAST_MINUTE_TRADING anomaly exactly when 0 < hours to
\* resolution < 24 (HIGH under 6 hours, MEDIUM otherwise) and a QUICK_FLIP
\* anomaly of severity MEDIUM exactly when the hold duration is under 2 hours,
\* a hold duration of 0 included
C19_TimingAnomalies ==
    (report.kind = "timing" /\ ~report.raised)
        => report.value = ClaimedTimings(SelectOutcomesWithMarket(report.args))

\* the manipulation score of the stated rule, from the figures of a result:
\* +30 mean impact > 0.05, +25 more than 3 large-impact trades, +20 maximum
\* impact > 0.2
ClaimedManipulation(avg_market_impact, large_impact_trades, max_impact_ratio) ==
    (IF 20 * avg_market_impact.num > avg_market_impact.den THEN 30 ELSE 0)
    + (IF large_impact_trades > 3 THEN 25 ELSE 0)
    + (IF 5 * max_impact_ratio.num > max_impact_ratio.den THEN 20 ELSE 0)

\* C20: analyze_market_impact returns, for a wallet without trades, a
\* manipulation score of 0, and otherwise the score the stated rule gives the
\* mean impact, the number of large-impact trades and the maximum impact of
\* the wallet's trades
C20_MarketImpact ==
    report.kind = "market_impact"
        => /\ ~report.raised
           /\ IF SelectActivityWithMarket(report.args) = <<>>
              THEN report.value.market_manipulation_score = 0
              ELSE report.value.market_manipulation_score
                     = ClaimedManipulation(report.value.avg_market_impact,
                                           report.value.large_impact_trades,
                                           report.value.max_impact_ratio)

\* ------------------------------------------- the wallet anomaly detector alone
\* a row of wallet_activity written hours_ago hours before t = 0
ActivityAt(wallet_address, condition_id, trade_amount, hours_ago) ==
    [wallet_address |-> wallet_address, condition_id |-> condition_id,
     trade_amount |-> trade_amount, timestamp |-> 0 - hours_ago]

\* the trades the feed may have recorded; the last one leaves the 7-day
\* window when the clock advances
ActivityRows ==
    {ActivityAt("w1", "m1", 2000, 0), ActivityAt("w1", "m1", 5001, 0),
     ActivityAt("w2", "m1", 2000, 0),
     ActivityAt("w1", "m1", 1000, WalletWindowHours - 1)}

DetectWalletAnomalies(condition_id) ==
    /\ report' = Returned("wallets", condition_id,
                          detect_wallet_anomalies(condition_id))
    /\ UNCHANGED <<now, store, calls>>

InitActivity ==
    /\ now = 0
    /\ volume_history = <<>> /\ price_history = <<>>
    /\ wallet_activity \in SeqsUpTo(ActivityRows, MaxActivity)
    /\ trade_outcomes = <<>>
    /\ market_creation_log = <<>>
    /\ markets = <<>>
    /\ ServiceEmpty /\ NoCalls
    /\ report = NoReport

NextActivity ==
    \/ \E condition_id \in Cids : DetectWalletAnomalies(condition_id)
    \/ Tick

SpecActivity == InitActivity /\ [][NextActivity]_vars

\* the rows of a market's wallet activity of the last 7 days made by wallet w
RecentTradesOf(condition_id, w) ==
    {i \in 1..Len(wallet_activity) :
        /\ wallet_activity[i].condition_id = condition_id
        /\ wallet_activity[i].wallet_address = w
        /\ wallet_activity[i].timestamp >= now - WalletWindowHours}

RECURSIVE TotalTraded(_)
TotalTraded(rows) ==
    IF rows = {} THEN 0
    ELSE LET i == CHOOSE j \in rows : TRUE
         IN  wallet_activity[i].trade_amount + TotalTraded(rows \ {i})

Flagged(anomalies, type, w) ==
    \E i \in 1..Len(anomalies) :
        anomalies[i].type = type /\ anomalies[i].wallet = w

\* C21: for a market's recent wallet activity, detect_wallet_anomalies flags a
\* wallet HIGH_CONCENTRATION (severity HIGH) exactly when it traded more than
\* 10000 in total over at most 5 trades, and LARGE_TRADES (severity MEDIUM)
\* exactly when at least 3 of its trades are above 1000, each flag whatever
\* the other and at most once; a market without activity gives no anomaly
C21_WalletFlags ==
    (report.kind = "wallets" /\ Fresh)
        => LET anomalies == report.value
               Mine(w) == RecentTradesOf(report.args, w)
               Large(w) == {i \in Mine(w) : wallet_activity[i].trade_amount > 1000}
           IN  /\ \A w \in Wallets :
                     /\ Flagged(anomalies, "HIGH_CONCENTRATION", w)
                           <=> (Mine(w) # {} /\ TotalTraded(Mine(w)) > 10000
                                /\ Cardinality(Mine(w)) <= 5)
                     /\ Flagged(anomalies, "LARGE_TRADES", w)
                           <=> Cardinality(Large(w)) >= 3
               /\ \A i \in 1..Len(anomalies) :
                     /\ anomalies[i].type \in {"HIGH_CONCENTRATION", "LARGE_TRADES"}
                     /\ anomalies[i].severity
                          = (IF anomalies[i].type = "HIGH_CONCENTRATION"
                             THEN "HIGH" ELSE "MEDIUM")
                     /\ \A j \in 1..Len(anomalies) :
                           (anomalies[j].type = anomalies[i].type
                            /\ anomalies[j].wallet = anomalies[i].wallet) => j = i
               /\ (\A w \in Wallets : Mine(w) = {}) => anomalies = <<>>

\* one wallet carries both flags and another only LARGE_TRADES
C21_Witness ==
    /\ report.kind = "wallets" /\ Fresh
    /\ Flagged(report.value, "HIGH_CONCENTRATION", "w1")
    /\ Flagged(report.value, "LARGE_TRADES", "w1")
    /\ Flagged(report.value, "LARGE_TRADES", "w2")
    /\ ~Flagged(report.value, "HIGH_CONCENTRATION", "w2")

\* ----------------------------------------------------- component scores
\* C22: every component score an analyzer returns lies in [0, 100]: the
\* insider score of a profitability analysis, the manipulation score of a
\* market-impact analysis, and the total framing score, timing score, creator
\* score and liquidity score of a market-creation report
C22_ComponentsInRange ==
    /\ (report.kind = "profitability" /\ ~report.raised)
          => report.value.insider_score \in 0..100
    /\ (report.kind = "market_impact" /\ ~report.raised)
          => report.value.market_manipulation_score \in 0..100
    /\ (report.kind = "creation" /\ ~report.raised)
          => /\ report.value.framing_analysis.total_framing_score \in 0..100
             /\ report.value.timing_analysis.timing_score \in 0..100
             /\ report.value.creator_analysis.creator_score \in 0..100
             /\ report.value.liquidity_score \in 0..100

\* ------------------------------------------------ the question analyzer alone
\* urgency and specificity words a question may hold, as written in it
UrgentWords ==
    <<"before", "urgent", "nearby", "immediately", "soon", "within", "quickly">>

SpecificWords == <<"Will", "exactly", "precisely", "guaranteed">>

\* the question made of the first u urgency words, the first s specificity
\* words, the given other words and k filler words
QuestionOf(u, s, others, k) ==
    SubSeq(UrgentWords, 1, u) \o SubSeq(SpecificWords, 1, s) \o others
    \o Filler(k)

FramedQuestions ==
    {QuestionOf(u, s, others, k) :
        u \in 0..Len(UrgentWords), s \in 0..Len(SpecificWords),
        others \in {<<>>, <<"Dec", "31">>}, k \in {0, 9, 14, 21}}

AnalyzeQuestionFraming(question) ==
    /\ report' = Returned("framing", question, analyze_question_framing(question))
    /\ UNCHANGED <<now, store, calls>>

InitFraming ==
    /\ now = 0
    /\ volume_history = <<>> /\ price_history = <<>>
    /\ wallet_activity = <<>>
    /\ trade_outcomes = <<>>
    /\ market_creation_log = <<>>
    /\ markets = <<>>
    /\ ServiceEmpty /\ NoCalls
    /\ report = NoReport

NextFraming ==
    \E question \in FramedQuestions : AnalyzeQuestionFraming(question)

SpecFraming == InitFraming /\ [][NextFraming]_vars

\* the framing score of the stated rule: 10 per urgency word present up to
\* 50, 15 per specificity word present up to 45, and past 20 words 2 points
\* per word beyond the twentieth up to 30
ClaimedFramingScore(question) ==
    LET found == UNION {LexiconIn(question[i]) : i \in 1..Len(question)}
    IN  Min(50, 10 * Cardinality(found \cap UrgencyWords))
        + Min(45, 15 * Cardinality(found \cap SpecificityIndicators))
        + (IF Len(question) > 20 THEN Min(30, 2 * (Len(question) - 20)) ELSE 0)

\* C23: the total framing score of a question is the stated sum of its
\* urgency part, its specificity part and its length bonus, whatever its
\* explicit-date and explicit-number flags
C23_FramingScore ==
    report.kind = "framing"
        => report.value.total_framing_score = ClaimedFramingScore(report.args)

\* ------------------------------------------------- the timing analyzer alone
\* hours at which a market is created or analysed: through the first day,
\* the two days after it and the morning of the fourth
ClockHours == {0, 5, 6, 22, 23, 30, 47, 60, 72, 84}

\* hours from creation to the end date, around 7 and 30 days
ResolutionHours == {100, 167, 168, 719, 720, 1000}

\* markets as the API lists them: createdAt is when the market was created,
\* endDate a timestamp without offset
TimedMarkets ==
    {[conditionId |-> "m1", question |-> <<>>, creator |-> "c2",
      createdAt |-> created, liquidity |-> 1000,
      endDate |-> [kind |-> "naive", t |-> created + hours]] :
        created \in {0, 47}, hours \in {167, 168, 720}}

AnalyzeCreationTiming(creation_time, end_date) ==
    /\ report' = Outcome("creation_timing", <<creation_time, end_date>>,
                         analyze_creation_timing(creation_time, end_date))
    /\ UNCHANGED <<now, store, calls>>

DetectTimedMarket(market_data) ==
    /\ report' = Outcome("creation", market_data,
                         detect_market_creation_anomaly(market_data))
    /\ UNCHANGED <<now, store, calls>>

InitTiming ==
    /\ now \in {0, 47, 84}
    /\ volume_history = <<>> /\ price_history = <<>>
    /\ wallet_activity = <<>>
    /\ trade_outcomes = <<>>
    /\ market_creation_log = <<>>
    /\ markets = <<>>
    /\ ServiceEmpty /\ NoCalls
    /\ report = NoReport

NextTiming ==
    \/ \E t \in ClockHours, hours \in ResolutionHours, aware \in BOOLEAN :
          AnalyzeCreationTiming([t |-> t, aware |-> FALSE],
                                [t |-> t + hours, aware |-> aware])
    \/ \E market_data \in TimedMarkets : DetectTimedMarket(market_data)

SpecTiming == InitTiming /\ [][NextTiming]_vars

\* the timing score of the stated rule for a market created at hour created
\* and ending at hour ends: +30 under 7 days to resolution, else +15 under 30
\* days; +20 created before 6:00 or after 22:59; +10 created on Saturday or
\* Sunday; capped at 50
ClaimedTimingScore(created, ends) ==
    Min(50,
        (IF ends - created < 7 * 24 THEN 30
         ELSE IF ends - created < 30 * 24 THEN 15 ELSE 0)
        + (IF HourOf(created) \notin 6..22 THEN 20 ELSE 0)
        + (IF WeekdayOf(created) \in {5, 6} THEN 10 ELSE 0))

\* C24: the timing score analyze_creation_timing returns is the stated capped
\* sum for the creation time and end date it is given, and the timing score
\* of a market-creation report is that sum for the market's own creation
\* timestamp and end date
C24_TimingScore ==
    /\ (report.kind = "creation_timing" /\ ~report.raised)
          => report.value.timing_score
               = ClaimedTimingScore(report.args[1].t, report.args[2].t)
    /\ (report.kind = "creation" /\ ~report.raised)
          => report.value.timing_analysis.timing_score
               = ClaimedTimingScore(report.args.createdAt, report.args.endDate.t)

\* ------------------------------------------------- the creation composite
\* C25: the score of a market-creation report is min(100, 0.3 framing + 0.25
\* timing + 0.25 creator + 0.2 liquidity score) of the report's own
\* components, its liquidity score is 20 below 500 of initial liquidity, 10
\* from 500 to below 1000 and 0 from 1000, and its creator score is 0 when
\* the creator has no creation on record
C25_CreationScore ==
    (report.kind = "creation" /\ ~report.raised)
        => LET r == report.value
               liquidity == report.args.liquidity
           IN  /\ r.insider_creation_score100
                    = Min(10000, 30 * r.framing_analysis.total_framing_score
                                 + 25 * r.timing_analysis.timing_score
                                 + 25 * r.creator_analysis.creator_score
                                 + 20 * r.liquidity_score)
               /\ r.liquidity_score
                    = (IF liquidity < 500 THEN 20
                       ELSE IF liquidity >= 500 /\ liquidity < 1000 THEN 10
                       ELSE 0)
               /\ (\A i \in 1..Len(market_creation_log) :
                       market_creation_log[i].creator_address # report.args.creator)
                     => r.creator_analysis.creator_score = 0

\* a report for a market of initial liquidity 500 by a creator without
\* records
C25_Witness ==
    /\ report.kind = "creation" /\ ~report.raised
    /\ report.args.liquidity = 500
    /\ report.value.liquidity_score = 10
    /\ report.value.insider_creation_score100 > 0
    /\ report.value.creator_analysis.total_markets = 0

\* ------------------------------------------------- the data service's store
\* m1 as the API lists it at a later moment
ApiMarketLater ==
    [conditionId |-> "m1", volume24hr |-> 7000, yes_price |-> 60,
     liquidity |-> 700, valid |-> TRUE]

\* a second listed market
ApiMarketB ==
    [conditionId |-> "m2", volume24hr |-> 100, yes_price |-> 50,
     liquidity |-> 0, valid |-> TRUE]

\* the lists of markets handed to store_market_data: none, one market, a
\* market twice with different values, two markets, and lists holding a
\* market whose volume is not a number
StoreBatches ==
    {<<>>, <<ApiMarketA>>, <<ApiMarketLater>>, <<ApiMarketB>>,
     <<ApiMarketA, ApiMarketLater>>, <<ApiMarketLater, ApiMarketB>>,
     <<ApiMarketX, ApiMarketA>>, <<ApiMarketX>>}

\* PolymarketDataService.store_market_data(markets)
StoreMarketData(batch, fault) ==
    LET stored == service_store_market_data(batch, fault)
    IN  /\ Len(fetch_log) < MaxStores
        /\ current_markets' = stored.current_markets
        /\ market_history' = stored.market_history
        /\ market_creations' = stored.market_creations
        /\ fetch_log' = stored.fetch_log
        /\ report' = Returned("store", <<batch, fault>>, stored.success)
        /\ UNCHANGED <<now, volume_history, price_history, wallet_activity,
                       trade_outcomes, market_creation_log, markets, calls>>

InitStore ==
    /\ now = 0
    /\ volume_history = <<>> /\ price_history = <<>>
    /\ wallet_activity = <<>>
    /\ trade_outcomes = <<>>
    /\ market_creation_log = <<>>
    /\ markets = <<>>
    /\ ServiceEmpty /\ NoCalls
    /\ report = NoReport

NextStore ==
    \/ \E batch \in StoreBatches, fault \in StoreFaults :
          StoreMarketData(batch, fault)
    \/ Tick

SpecStore == InitStore /\ [][NextStore]_vars

\* the positions of batch holding a market with this id that can be processed
StoredPositions(batch, condition_id) ==
    {i \in 1..Len(batch) : batch[i].valid /\ batch[i].conditionId = condition_id}

\* the rows of a table for one condition_id
RowsOf(table, condition_id) ==
    {i \in 1..Len(table) : table[i].condition_id = condition_id}

\* a step of store_market_data that committed rows
StoreCommitted ==
    report'.kind = "store" /\ fetch_log' # fetch_log

\* C26: current_markets holds one row per condition_id stored so far and
\* market_creations one row for each of them; a store that commits leaves
\* every market it processed with the field values of its last occurrence in
\* the batch and every other market's row as it was; a new market gets
\* created_at, first_seen and initial_liquidity from that store (the
\* liquidity of its first occurrence), and no step changes the created_at of
\* a row or a row of market_creations
C26_CurrentMarkets ==
    /\ [](\A c \in Cids :
             /\ Cardinality(RowsOf(current_markets, c)) <= 1
             /\ Cardinality(RowsOf(market_creations, c))
                  = Cardinality(RowsOf(current_markets, c)))
    /\ [][/\ \A c \in Cids : \A i \in RowsOf(current_markets, c) :
                \E j \in RowsOf(current_markets', c) :
                    current_markets'[j].created_at = current_markets[i].created_at
          /\ \A i \in 1..Len(market_creations) :
                \E j \in 1..Len(market_creations') :
                    market_creations'[j] = market_creations[i]
          /\ StoreCommitted =>
                \A c \in Cids :
                    LET at == StoredPositions(report'.args[1], c)
                        first == CHOOSE i \in at : \A k \in at : i <= k
                        last == CHOOSE i \in at : \A k \in at : i >= k
                    IN  IF at = {}
                        THEN \A i \in RowsOf(current_markets, c) :
                                \E j \in RowsOf(current_markets', c) :
                                    current_markets'[j] = current_markets[i]
                        ELSE /\ \E j \in RowsOf(current_markets', c) :
                                  /\ current_markets'[j].volume_24h
                                       = report'.args[1][last].volume24hr
                                  /\ current_markets'[j].liquidity
                                       = report'.args[1][last].liquidity
                                  /\ current_markets'[j].outcome_prices
                                       = report'.args[1][last].yes_price
                                  /\ current_markets'[j].updated_at = now
                                  /\ RowsOf(current_markets, c) = {}
                                       => current_markets'[j].created_at = now
                             /\ RowsOf(current_markets, c) = {}
                                  => \E j \in RowsOf(market_creations', c) :
                                        /\ market_creations'[j].first_seen = now
                                        /\ market_creations'[j].initial_liquidity
                                             = report'.args[1][first].liquidity
          /\ ~StoreCommitted =>
                /\ current_markets' = current_markets
                /\ market_creations' = market_creations]_vars

\* m1 was stored again after the clock advanced: its row carries the later
\* values, its created_at and its market_creations row the first ones
C26_Witness ==
    /\ report.kind = "store"
    /\ \E i \in RowsOf(current_markets, "m1"), j \in RowsOf(market_creations, "m1") :
          /\ current_markets[i].updated_at > current_markets[i].created_at
          /\ current_markets[i].liquidity # market_creations[j].initial_liquidity
          /\ market_creations[j].first_seen = current_markets[i].created_at
    /\ RowsOf(current_markets, "m2") # {}

\* C27: a store_market_data call that returns False leaves no row it wrote
\* in current_markets, market_history, market_creations or fetch_log; a
\* call that returns True adds exactly one fetch_log row, with success
\* true; fetch_log never holds a row with success false
C27_AllOrNothing ==
    /\ [](\A i \in 1..Len(fetch_log) : fetch_log[i].success)
    /\ [][(report'.kind = "store" /\ now' = now) =>
            IF report'.value
            THEN /\ Len(fetch_log') = Len(fetch_log) + 1
                 /\ SubSeq(fetch_log', 1, Len(fetch_log)) = fetch_log
                 /\ fetch_log'[Len(fetch_log')].success
            ELSE /\ current_markets' = current_markets
                 /\ market_history' = market_history
                 /\ market_creations' = market_creations
                 /\ fetch_log' = fetch_log]_vars

\* ------------------------------------------------ the background service
\* the interval handed to start_background_service
IntervalHours == TickHours

\* what the API answers to a scheduled fetch
CycleResponses == {<<ApiError>>, <<ApiOk(<<ApiMarketA>>)>>}

\* a run_service thread: where it stands and the jobs run_pending still has
\* to run
LoopAt(pc, due) == [pc |-> pc, due |-> due]

LiveLoops == {t \in 1..Len(loops) : loops[t].pc # "exited"}

\* sorted(job for job in self.jobs if job.should_run) of schedule.run_pending
RECURSIVE SortedJobs(_)
SortedJobs(due) ==
    IF due = {} THEN <<>>
    ELSE LET j == CHOOSE j \in due :
                      \A k \in due : jobs[j] < jobs[k]
                                        \/ (jobs[j] = jobs[k] /\ j <= k)
         IN  <<j>> \o SortedJobs(due \ {j})

RunnableJobs == SortedJobs({j \in 1..Len(jobs) : jobs[j] <= now})

\* start_background_service(interval_minutes): sets the flag and starts a
\* run_service thread
StartBackgroundService ==
    /\ Len(loops) < MaxStarts
    /\ running' = TRUE
    /\ loops' = Append(loops, LoopAt("register", <<>>))
    /\ report' = Returned("start", <<>>, <<>>)
    /\ UNCHANGED <<now, store, alert_call, store_call, jobs, cycles>>

\* stop_background_service()
StopBackgroundService ==
    /\ running' = FALSE
    /\ report' = Returned("stop", <<>>, <<>>)
    /\ UNCHANGED <<now, store, alert_call, store_call, loops, jobs, cycles>>

\* run_service: schedule.every(interval_minutes).minutes.do(self.fetch_and_store)
RegisterJob(t) ==
    /\ t <= Len(loops) /\ loops[t].pc = "register"
    /\ jobs' = Append(jobs, now + IntervalHours)
    /\ loops' = [loops EXCEPT ![t].pc = "test"]
    /\ UNCHANGED <<now, store, alert_call, store_call, running, cycles, report>>

\* run_service: while self.running
TestRunning(t) ==
    /\ t <= Len(loops) /\ loops[t].pc = "test"
    /\ loops' = [loops EXCEPT ![t].pc = IF running THEN "pending" ELSE "exited"]
    /\ UNCHANGED <<now, store, alert_call, store_call, running, jobs, cycles,
                   report>>

\* run_service: schedule.run_pending() collects the jobs that are due; with
\* none due it returns and the loop sleeps a second
RunPending(t) ==
    /\ t <= Len(loops) /\ loops[t].pc = "pending"
    /\ loops' = [loops EXCEPT ![t] =
                    IF RunnableJobs = <<>> THEN LoopAt("test", <<>>)
                    ELSE LoopAt("jobs", RunnableJobs)]
    /\ UNCHANGED <<now, store, alert_call, store_call, running, jobs, cycles,
                   report>>

\* run_pending runs the next job it collected: one fetch_and_store cycle,
\* after which the job is scheduled an interval later
RunJob(t, responses, fault) ==
    /\ t <= Len(loops) /\ loops[t].pc = "jobs"
    /\ LET j == Head(loops[t].due)
           rest == Tail(loops[t].due)
           fetched == fetch_markets_from_api(responses)
           stored == service_store_market_data(fetched, fault)
       IN  /\ current_markets' = stored.current_markets
           /\ market_history' = stored.market_history
           /\ market_creations' = stored.market_creations
           /\ fetch_log' = stored.fetch_log
           /\ report' = Returned("fetch_and_store", <<responses, fault>>,
                                 [markets |-> fetched, success |-> stored.success])
           /\ cycles' = Append(cycles, [job |-> j, at |-> now,
                                        stopped |-> ~running])
           /\ jobs' = [jobs EXCEPT ![j] = now + IntervalHours]
           /\ loops' = [loops EXCEPT ![t] =
                           IF rest = <<>> THEN LoopAt("test", <<>>)
                           ELSE LoopAt("jobs", rest)]
    /\ UNCHANGED <<now, volume_history, price_history, wallet_activity,
                   trade_outcomes, market_creation_log, markets, alert_call,
                   store_call, running>>

\* an interval of the schedule elapses
IntervalElapses ==
    /\ now < MaxIntervals * IntervalHours
    /\ now' = now + IntervalHours
    /\ UNCHANGED <<store, calls, report>>

InitService ==
    /\ now = 0
    /\ volume_history = <<>> /\ price_history = <<>>
    /\ wallet_activity = <<>>
    /\ trade_outcomes = <<>>
    /\ market_creation_log = <<>>
    /\ markets = <<>>
    /\ ServiceEmpty /\ NoCalls
    /\ report = NoReport

\* a step of run_service thread t
LoopStep(t) ==
    \/ RegisterJob(t)
    \/ TestRunning(t)
    \/ RunPending(t)
    \/ \E responses \in CycleResponses, fault \in StoreFaults :
          RunJob(t, responses, fault)

NextService ==
    \/ StartBackgroundService
    \/ StopBackgroundService
    \/ \E t \in 1..MaxStarts : LoopStep(t)
    \/ IntervalElapses

SpecService == InitService /\ [][NextService]_vars

\* every started thread keeps being scheduled
SpecServiceFair ==
    SpecService /\ \A t \in 1..MaxStarts : WF_vars(LoopStep(t))

\* C28: once stop_background_service has returned and no start follows,
\* every run_service loop eventually exits, and no fetch_and_store cycle
\* begins while the service is stopped
C28_StopStops ==
    /\ [][Len(cycles') > Len(cycles) => running]_vars
    /\ (~running /\ LiveLoops # {}) ~> (running \/ LiveLoops = {})

\* C29: under every interleaving of start and stop calls at most one
\* run_service loop is live, and no two fetch_and_store cycles begin in the
\* same interval
C29_SingleLoop ==
    /\ Cardinality(LiveLoops) <= 1
    /\ \A i, k \in 1..Len(cycles) : i # k => cycles[i].at # cycles[k].at

\* ------------------------------------------------------ main's store-then-scan
\* variant: store_market_data without the INSERT into volume_history
MainStoreMarketData_novolume(market_data) ==
    /\ Len(volume_history) < MaxHist + 2
    /\ LET Others(r) == r.condition_id # market_data.conditionId
       IN  /\ markets' = Append(SelectSeq(markets, Others),
                                [condition_id |-> market_data.conditionId,
                                 end_date |-> MarketRow(market_data.conditionId).end_date])
           /\ price_history' = Append(price_history,
                                      [condition_id |-> market_data.conditionId,
                                       yes_prob |-> market_data.yes_price,
                                       timestamp |-> now])
    /\ report' = Returned("store_market_data", market_data, <<>>)
    /\ UNCHANGED <<now, volume_history, wallet_activity, trade_outcomes,
                   market_creation_log, current_markets, market_history,
                   market_creations, fetch_log, calls>>

\* main: detector.store_market_data(market), the whole call
MainStoreMarketData(market_data) ==
    /\ Len(volume_history) < MaxHist + 2
    /\ LET Others(r) == r.condition_id # market_data.conditionId
       IN  /\ markets' = Append(SelectSeq(markets, Others),
                                [condition_id |-> market_data.conditionId,
                                 end_date |-> MarketRow(market_data.conditionId).end_date])
           /\ volume_history' = Append(volume_history,
                                       [condition_id |-> market_data.conditionId,
                                        volume_24h |-> market_data.volume24hr,
                                        timestamp |-> now])
           /\ price_history' = Append(price_history,
                                      [condition_id |-> market_data.conditionId,
                                       yes_prob |-> market_data.yes_price,
                                       timestamp |-> now])
    /\ report' = Returned("store_market_data", market_data, <<>>)
    /\ UNCHANGED <<now, wallet_activity, trade_outcomes, market_creation_log,
                   current_markets, market_history, market_creations, fetch_log,
                   calls>>

\* main: detector.scan_markets scores the snapshot just stored
MainScanMarkets ==
    /\ report.kind = "store_market_data" /\ report.at = now
    /\ report' = Returned("main", report.args,
                          generate_composite_alert(report.args))
    /\ UNCHANGED <<now, store, calls>>

\* the snapshots of market m1 that main fetches
MainMarkets == {market_data \in ConcMarkets : market_data.conditionId = "m1"}

\* a database that so far holds one snapshot of another market
InitMain ==
    /\ now = 0
    /\ volume_history = OtherVolumeRows /\ price_history = OtherPriceRows
    /\ wallet_activity = <<>>
    /\ trade_outcomes = <<>>
    /\ market_creation_log = <<>>
    /\ markets = <<>>
    /\ ServiceEmpty /\ NoCalls
    /\ report = NoReport

NextMain ==
    \/ \E market_data \in MainMarkets : MainStoreMarketData(market_data)
    \/ MainScanMarkets
    \/ Tick

SpecMain == InitMain /\ [][NextMain]_vars

\* the report of a scan that followed the store of its snapshot
IsMainReport == report.kind = "main" /\ report.at = now

====
